---- MODULE Spec2Model ----
(***************************************************************************)
(* A model of the loan guidance service: the stateful pieces of            *)
(* AdvancedLoanGuidanceSystem (label encoders, feature scaler, trained     *)
(* models), the two service wrappers that load it and answer requests,     *)
(* and the pure rules of the guidance layer.                               *)
(*                                                                         *)
(* Risk values and risk scores are fixed-point numbers in hundredths:      *)
(* 50 stands for 0.5.  Python dicts are sequences of <<key, value>> pairs  *)
(* in insertion order.                                                     *)
(***************************************************************************)
EXTENDS Integers, Sequences, FiniteSets, TLC

VARIABLES
    sector_data,    \* the sector_data object of a request
    sector_pc,      \* "idle", "new", "validated", "rejected" or "scored"
    sector_risk,    \* what calculate_sector_risk returned, once "scored"
    risk_score,     \* the risk score handed to the guidance rules
    rule_pc,        \* "idle", "new" or "done"
    risk_level,     \* what categorize_risk returned, once "done"
    label_encoders, \* self.label_encoders: per field name, its encoder
    enc_result,     \* the last encode_categorical call and its outcome
    service,        \* the wrapper that runs: "app" (app/main.py), "root" (main.py)
    svc_pc,         \* "idle", "start", "serving" or "crashed"
    gs_origin,      \* guidance_system: "none" (None), "artifact", "fabricated"
    feature_scaler, \* self.feature_scaler: what it was last fitted on
    model_cols,     \* the columns risk_model and payment_predictor were fitted on
    response,       \* the last answer to an analysis request
    payment_history,  \* the payment_history value handed to analyze_payments
    pay_pc,           \* "idle", "new" or "done"
    payment_features, \* what analyze_payments returned, or that it raised
    div_args,         \* the arguments a and b of a safe_divide call
    div_pc,           \* "idle", "new" or "done"
    div_result,       \* what safe_divide returned, or that it raised
    loan_details,     \* loan_details and monthly_payment of one
                      \* create_detailed_schedule call
    now,              \* the day datetime.now() shows, as a day number
    schedule_pc,      \* "idle", "new" or "done"
    schedule,         \* what create_detailed_schedule returned
    schedule_locals,  \* per iteration of that call, its locals
                      \* interest_payment, principal_payment and
                      \* remaining_balance as computed, before any rounding
    user_data,        \* user_data of one calculate_early_payment_benefits call
    early_pc,         \* "idle", "new" or "done"
    early_payment_benefits, \* what calculate_early_payment_benefits returned
    guide_data,       \* user_data and risk_score handed to the guidance rules
    guide_pc,         \* "idle", "new" or "done"
    guidance,         \* the risk assessment, recommendations and monitoring
                      \* plan the rules returned
    requests,         \* per concurrent request: where it is in
                      \* generate_comprehensive_guidance, and its locals
    scaler_mean,      \* feature_scaler.mean_: the rows it was last fitted on
    full_schedule,    \* results["schedule"] handed to _get_summary_schedule
    summary_pc,       \* "idle", "new" or "done"
    schedule_summary  \* what _get_summary_schedule returned

sectorVars == <<sector_data, sector_pc, sector_risk>>
ruleVars == <<risk_score, rule_pc, risk_level>>
encVars == <<label_encoders, enc_result>>
svcVars == <<service, svc_pc, gs_origin, feature_scaler, model_cols, response>>

payVars == <<payment_history, pay_pc, payment_features>>
divVars == <<div_args, div_pc, div_result>>
schedVars == <<loan_details, now, schedule_pc, schedule, schedule_locals>>
earlyVars == <<user_data, early_pc, early_payment_benefits>>
guideVars == <<guide_data, guide_pc, guidance>>
concVars == <<requests, scaler_mean>>
sumVars == <<full_schedule, summary_pc, schedule_summary>>
moreVars == <<guideVars, concVars, sumVars>>
calcVars == <<payVars, divVars, schedVars, earlyVars, moreVars>>

vars == <<sector_data, sector_pc, sector_risk, risk_score, rule_pc,
          risk_level, label_encoders, enc_result, service, svc_pc,
          gs_origin, feature_scaler, model_cols, response,
          payment_history, pay_pc, payment_features, div_args, div_pc,
          div_result, loan_details, now, schedule_pc, schedule,
          schedule_locals, user_data,
          early_pc, early_payment_benefits, guide_data, guide_pc, guidance,
          requests, scaler_mean, full_schedule, summary_pc, schedule_summary>>

(***************************************************************************)
(* Bounds of the model.                                                    *)
(***************************************************************************)
\* The largest number of keys of a generated sector_data dict.
MaxSectorKeys == 2

\* The largest risk score generated, in hundredths.
MaxScore == 100

\* The longest series handed to encode_categorical.
MaxSeries == 2

\* The largest number of features one prepare_features call drops.
MaxDropped == 1

\* The outcomes of a run's random draws are numbered 0..MaxDraw.
MaxDraw == 1

\* The longest payment history.
MaxHistory == 3

\* The longest Series handed to safe_divide.
MaxVector == 2

\* The longest term of a schedule without interest, and of one with.
MaxTerm == 12
MaxRatedTerm == 2

\* The longest term calculate_early_payment_benefits is called with.
MaxEarlyTerm == 12

\* The most payments of a schedule handed to _get_summary_schedule.
MaxSchedule == 60

(***************************************************************************)
(* Python values.  A value is a record [t, n, s]: t is its type, n its     *)
(* number when t = "int", s its text when t = "str".                       *)
(***************************************************************************)
PyInt(n) == [t |-> "int", n |-> n, s |-> ""]
PyStr(s) == [t |-> "str", n |-> 0, s |-> s]
PyNone == [t |-> "none", n |-> 0, s |-> ""]

\* The decimal digits of a small natural number.
Digits == <<"0", "1", "2", "3", "4", "5", "6", "7", "8", "9">>

\* Python's str(value).
str(v) ==
    CASE v.t = "str" -> v.s
      [] v.t = "int" -> IF v.n \in 0..9 THEN Digits[v.n + 1] ELSE "<int>"
      [] OTHER -> "None"

(***************************************************************************)
(* calculate_sector_risk                                                   *)
(***************************************************************************)
\* The rule table: per sector a base risk and its modifiers in the
\* table's order.  A modifier is a lookup table (a function from texts to
\* an amount) or a threshold rule "x > limit".
sector_base_risk ==
    [farming |->
        [base |-> 70,
         modifiers |-> <<
            [key |-> "irrigation_type", callable |-> FALSE, limit |-> 0,
             table |-> [rainfed |-> 20, irrigated |-> -10]],
            [key |-> "land_ownership", callable |-> FALSE, limit |-> 0,
             table |-> [leased |-> 10, owned |-> -10]],
            [key |-> "crop_diversity", callable |-> TRUE, limit |-> 2,
             table |-> [none |-> 0]] >>],
     business |->
        [base |-> 50,
         modifiers |-> <<
            [key |-> "years", callable |-> TRUE, limit |-> 5,
             table |-> [none |-> 0]],
            [key |-> "type", callable |-> FALSE, limit |-> 0,
             table |-> [retail |-> 10, manufacturing |-> 20, service |-> 0]] >>],
     student |->
        [base |-> 30,
         modifiers |-> <<
            [key |-> "course_type", callable |-> FALSE, limit |-> 0,
             table |-> [engineering |-> -10, medical |-> -10,
                        business |-> 0, arts |-> 10]] >>]]

\* The neutral risk returned for what cannot be evaluated.
NeutralRisk == 50

\* The base risk of a sector tag the table does not know.
DefaultBase == 50

\* The outcome of an evaluation: a value, or an exception raised.
Value(v) == [raised |-> FALSE, value |-> v]
Raised == [raised |-> TRUE, value |-> 0]

\* dict.get(key, default) of a lookup table.
TableGet(table, key, default) ==
    IF key \in DOMAIN table THEN table[key] ELSE default

\* Threshold with the boundary on the wrong side: x >= limit.
ThresholdInclusive(x, limit) ==
    IF x.t = "int" THEN [raised |-> FALSE,
                         value |-> IF x.n >= limit THEN -10 ELSE 10]
    ELSE [raised |-> TRUE, value |-> 0]

\* lambda x: -0.1 if x > limit else 0.1; the comparison of a value that is
\* not a number with a number is a TypeError.
Threshold(x, limit) ==
    IF x.t = "int" THEN Value(IF x.n > limit THEN -10 ELSE 10) ELSE Raised

\* A sector entry (the value under the sector key) is
\*   [kind |-> "dict", attrs |-> a function from attribute names to values,
\*    has |-> {}],
\*   [kind |-> "container", has |-> names, attrs |-> <<>>]: a str or a list,
\*       on which "key in info" is a membership test and info[key] a
\*       TypeError,
\*   [kind |-> "scalar", has |-> {}, attrs |-> <<>>]: None or a number, on
\*       which "key in info" is a TypeError.
\* "key in sector_info": "yes", "no" or "raise".
KeyIn(key, info) ==
    CASE info.kind = "dict" ->
            IF key \in DOMAIN info.attrs THEN "yes" ELSE "no"
      [] info.kind = "container" ->
            IF key \in info.has THEN "yes" ELSE "no"
      [] OTHER -> "raise"

\* The amount one modifier adds for sector_info.
ModifierAmount(m, info) ==
    LET present == KeyIn(m.key, info) IN
    IF present = "raise" THEN Raised
    ELSE IF present = "no" THEN Value(0)
    ELSE IF info.kind # "dict" THEN Raised
    ELSE IF m.callable THEN Threshold(info.attrs[m.key], m.limit)
    ELSE Value(TableGet(m.table, str(info.attrs[m.key]), 0))

\* The loop over the modifiers: the risk after the modifiers i..Len, or
\* the exception of the first one that raises.
RECURSIVE ApplyModifiers(_, _, _, _)
ApplyModifiers(mods, i, info, risk) ==
    IF i > Len(mods) THEN Value(risk)
    ELSE LET a == ModifierAmount(mods[i], info) IN
         IF a.raised THEN Raised
         ELSE ApplyModifiers(mods, i + 1, info, risk + a.value)

Max(a, b) == IF a >= b THEN a ELSE b
Min(a, b) == IF a <= b THEN a ELSE b

\* Clamp without its upper limit: max(0, risk).
ClampLowerOnly(risk) == Max(0, risk)

\* max(0, min(1, risk))
Clamp(risk) == Max(0, Min(100, risk))

\* The try block from "sector_type = next(iter(sector_data))" on, for a
\* dict argument.
SectorRiskOfDict(items) ==
    IF Len(items) = 0 THEN Raised       \* next(iter({})) is StopIteration
    ELSE
        LET sector_type == items[1][1]
            sector_info == items[1][2]
            known == sector_type \in DOMAIN sector_base_risk
            risk0 == IF known THEN sector_base_risk[sector_type].base
                     ELSE DefaultBase
            risk == IF known
                    THEN ApplyModifiers(sector_base_risk[sector_type].modifiers,
                                        1, sector_info, risk0)
                    ELSE Value(risk0)
        IN IF risk.raised THEN Raised ELSE Value(Clamp(risk.value))

\* The argument of calculate_sector_risk is
\*   [kind |-> "dict", items |-> pairs, evals |-> FALSE],
\*   [kind |-> "str", items |-> pairs, evals |-> e]: a string; e is TRUE
\*       when eval of it gives the dict of these items, FALSE when eval
\*       raises or gives something that is no dict,
\*   [kind |-> "other", items |-> <<>>, evals |-> FALSE]: None, a number,
\*       a list.
calculate_sector_risk(arg) ==
    LET is_dict == arg.kind = "dict" \/ (arg.kind = "str" /\ arg.evals)
        body == IF is_dict THEN SectorRiskOfDict(arg.items)
                ELSE Value(NeutralRisk)
    IN IF body.raised THEN NeutralRisk ELSE body.value

(***************************************************************************)
(* LoanRequest.validate_sector_data                                        *)
(***************************************************************************)
allowed_sectors == <<"student", "business", "farming">>

\* "sector in v" for a dict given as its items.
HasKey(items, key) == \E i \in 1..Len(items) : items[i][1] = key

\* The validator: any(sector in v for sector in allowed_sectors).
validate_sector_data(items) ==
    \E i \in 1..Len(allowed_sectors) : HasKey(items, allowed_sectors[i])

\* The field's type, Dict[str, Dict[str, Union[str, int, float]]]: every
\* entry is a dict and none of its values is None.
SectorDataTypeOk(arg) ==
    /\ arg.kind = "dict"
    /\ \A i \in 1..Len(arg.items) :
          /\ arg.items[i][2].kind = "dict"
          /\ \A k \in DOMAIN arg.items[i][2].attrs :
                arg.items[i][2].attrs[k].t # "none"

\* The values of the entries as the field's Union[str, int, float] keeps
\* them: as they are, or (as_str) every number as its text, which is what
\* a build does whose Union takes the first member that accepts the value.
CoerceInfo(info, as_str) ==
    IF as_str /\ info.kind = "dict"
    THEN [info EXCEPT !.attrs =
            [k \in DOMAIN info.attrs |->
                IF info.attrs[k].t = "int" THEN PyStr(str(info.attrs[k]))
                ELSE info.attrs[k]]]
    ELSE info

CoerceSectorData(arg, as_str) ==
    [arg EXCEPT !.items =
        [i \in 1..Len(arg.items) |->
            <<arg.items[i][1], CoerceInfo(arg.items[i][2], as_str)>>]]

(***************************************************************************)
(* The sector_data objects the model generates.                            *)
(***************************************************************************)
SectorKeys == {"farming", "business", "student", "mining"}

\* The values generated for an attribute: the table's entries or the two
\* sides of the threshold, a value the rule does not know, a value of
\* another type.
AttrValues(key) ==
    CASE key = "irrigation_type" ->
            {PyStr("rainfed"), PyStr("irrigated"), PyStr("drip")}
      [] key = "land_ownership" ->
            {PyStr("leased"), PyStr("owned"), PyStr("shared")}
      [] key = "crop_diversity" -> {PyInt(2), PyInt(3), PyStr("many")}
      [] key = "years" -> {PyInt(5), PyInt(6), PyStr("six"), PyNone}
      [] key = "type" ->
            {PyStr("retail"), PyStr("manufacturing"), PyStr("service"),
             PyStr("other"), PyInt(5)}
      [] key = "course_type" ->
            {PyStr("engineering"), PyStr("medical"), PyStr("business"),
             PyStr("arts"), PyStr("law")}

AttrKeySets ==
    {{"irrigation_type", "land_ownership", "crop_diversity"},
     {"years", "type"}, {"course_type"}}

AllAttrKeys == UNION AttrKeySets

DictInfo(attrs) == [kind |-> "dict", attrs |-> attrs, has |-> {}]
ContainerInfo(has) == [kind |-> "container", attrs |-> <<>>, has |-> has]
ScalarInfo == [kind |-> "scalar", attrs |-> <<>>, has |-> {}]

\* Every dict over a subset of one sector's attributes.
DictInfos ==
    UNION {UNION {{DictInfo(f) : f \in
                     {g \in [D -> UNION {AttrValues(k) : k \in D}] :
                         \A k \in D : g[k] \in AttrValues(k)}}
                  : D \in SUBSET K}
           : K \in AttrKeySets}

SectorInfos ==
    DictInfos \cup {ScalarInfo} \cup {ContainerInfo({})}
              \cup {ContainerInfo({k}) : k \in AllAttrKeys}

\* The entries generated after the first one.
RestInfos ==
    {DictInfo(<<>>), ScalarInfo,
     DictInfo([irrigation_type |-> PyStr("rainfed"),
               type |-> PyStr("manufacturing"),
               course_type |-> PyStr("arts")])}

\* The dicts of n keys: a first entry and n - 1 further ones, under
\* distinct keys.
RECURSIVE MoreItems(_, _)
MoreItems(items, n) ==
    IF n = 0 THEN {items}
    ELSE UNION {MoreItems(Append(items, <<k, info>>), n - 1) :
                    k \in {x \in SectorKeys : ~HasKey(items, x)},
                    info \in RestInfos}

SectorItems ==
    {<<>>} \cup
    UNION {MoreItems(<<<<k, info>>>>, n) :
              k \in SectorKeys, info \in SectorInfos,
              n \in 0..(MaxSectorKeys - 1)}

SectorArgs ==
    {[kind |-> "dict", items |-> items, evals |-> FALSE] : items \in SectorItems}
    \cup {[kind |-> "str", items |-> items, evals |-> TRUE] : items \in SectorItems}
    \cup {[kind |-> "str", items |-> <<>>, evals |-> FALSE],
          [kind |-> "other", items |-> <<>>, evals |-> FALSE]}

(***************************************************************************)
(* categorize_risk                                                         *)
(***************************************************************************)
\* The two thresholds, in hundredths.
LowRiskBelow == 30
ModerateRiskBelow == 70

\* categorize_risk with the thresholds counted to the lower band.
categorize_risk_inclusive(score) ==
    IF score <= LowRiskBelow THEN "Low Risk"
    ELSE IF score <= ModerateRiskBelow THEN "Moderate Risk"
    ELSE "High Risk"

categorize_risk(score) ==
    IF score < LowRiskBelow THEN "Low Risk"
    ELSE IF score < ModerateRiskBelow THEN "Moderate Risk"
    ELSE "High Risk"

(***************************************************************************)
(* encode_categorical and sklearn's LabelEncoder                           *)
(***************************************************************************)
\* The categories of the model in sorted (code point) order, which is the
\* order np.unique gives the classes of a LabelEncoder.
CategoryOrder ==
    <<"Charged Off", "Current", "Late", "business", "farmer", "retiree",
      "student">>

FieldNames == {"borrower_type", "loan_status"}

\* The values of a field in the data the encoders are fitted on.
FieldValues(name) ==
    IF name = "borrower_type" THEN {"business", "farmer", "student"}
    ELSE {"Charged Off", "Current"}

\* The elements of a series.
Elements(series) == {series[i] : i \in 1..Len(series)}

\* LabelEncoder.fit: classes_ = np.unique(series), sorted and distinct.
Classes(series) ==
    LET In(c) == c \in Elements(series) IN SelectSeq(CategoryOrder, In)

\* The code of a class: its index in classes_, counted from 0.
CodeOf(classes, c) == (CHOOSE i \in 1..Len(classes) : classes[i] = c) - 1

\* An encoder of self.label_encoders; one with fitted = FALSE stands for
\* a name that is not in the dict.
Unfitted == [fitted |-> FALSE, classes |-> <<>>]
Fitted(classes) == [fitted |-> TRUE, classes |-> classes]

\* LabelEncoder.transform: the codes, or a ValueError for a label that is
\* not in classes_.
Transform(classes, series) ==
    IF Elements(series) \subseteq Elements(classes)
    THEN [raised |-> FALSE,
          codes |-> [i \in 1..Len(series) |-> CodeOf(classes, series[i])]]
    ELSE [raised |-> TRUE, codes |-> <<>>]

\* encode_categorical that fits the encoder on every call.
encode_categorical_refit(encoders, series, name) ==
    [encoders |-> [encoders EXCEPT ![name] = Fitted(Classes(series))],
     raised |-> FALSE,
     codes |-> [i \in 1..Len(series) |-> CodeOf(Classes(series), series[i])]]

\* encode_categorical that gives a label outside the fitted classes the
\* next free code and adds it to the stored mapping.
encode_categorical_lenient(encoders, series, name) ==
    IF ~encoders[name].fitted
    THEN [encoders |-> [encoders EXCEPT ![name] = Fitted(Classes(series))],
          raised |-> FALSE,
          codes |-> Transform(Classes(series), series).codes]
    ELSE LET all == Classes(encoders[name].classes \o series) IN
         [encoders |-> [encoders EXCEPT ![name] = Fitted(all)],
          raised |-> FALSE,
          codes |-> Transform(all, series).codes]

\* encode_categorical(series, name) on self.label_encoders = encoders: the
\* encoders after the call and what the call returns.
encode_categorical(encoders, series, name) ==
    IF ~encoders[name].fitted
    THEN [encoders |-> [encoders EXCEPT ![name] = Fitted(Classes(series))],
          raised |-> FALSE,
          codes |-> Transform(Classes(series), series).codes]
    ELSE [encoders |-> encoders,
          raised |-> Transform(encoders[name].classes, series).raised,
          codes |-> Transform(encoders[name].classes, series).codes]

\* The series of at most n values of a set.
RECURSIVE SeriesUpTo(_, _)
SeriesUpTo(S, n) ==
    IF n = 0 THEN {<<>>}
    ELSE SeriesUpTo(S, n - 1) \cup
         {Append(q, x) : q \in {r \in SeriesUpTo(S, n - 1) : Len(r) = n - 1},
                         x \in S}

NoEncResult ==
    [called |-> FALSE, name |-> "", series |-> <<>>, raised |-> FALSE,
     codes |-> <<>>]

(***************************************************************************)
(* prepare_features and generate_comprehensive_guidance                    *)
(***************************************************************************)
\* The feature list of prepare_features.
features ==
    <<"monthly_income", "loan_amount", "interest_rate", "loan_term_months",
      "credit_score", "age", "borrower_type", "sector_risk",
      "payment_regularity", "late_payments", "avg_payment_delay",
      "payment_volatility", "debt_to_income", "monthly_payment_ratio",
      "income_to_loan_ratio", "credit_income_interaction",
      "age_credit_interaction", "borrower_type_freq">>

\* The sets of at most n features.
RECURSIVE DropSets(_)
DropSets(n) ==
    IF n = 0 THEN {{}}
    ELSE DropSets(n - 1) \cup
         {D \cup {f} : D \in DropSets(n - 1), f \in Elements(features)}

\* features = [f for f in features if np.random.random() > 0.1]: the list
\* without the features whose draw was at most 0.1.
Keep(dropped) ==
    LET Kept(f) == f \notin dropped IN SelectSeq(features, Kept)

\* What one prepare_features call may select.
KeptChoices == {Keep(D) : D \in DropSets(MaxDropped)}

\* self.feature_scaler: what the last fit_transform was given.
UnfittedScaler == [fit_on |-> "nothing", cols |-> <<>>]

\* A feature matrix: the record it was derived from, its columns, and the
\* outcome of the random draws (the noise of preprocess_data and
\* prepare_features) that went into its values.
FeatureMatrix(record, cols, draw) ==
    [record |-> record, cols |-> cols, draw |-> draw]

NoMatrix == [record |-> [borrower_type |-> "", loan_status |-> ""],
             cols |-> <<>>, draw |-> 0]

\* prepare_features(data): the columns kept, the scaler fitted on them by
\* feature_scaler.fit_transform(X), the matrix returned.
prepare_features(record, batch, kept, draw) ==
    [scaler |-> [fit_on |-> batch, cols |-> kept],
     X |-> FeatureMatrix(record, kept, draw)]

\* The state of an AdvancedLoanGuidanceSystem object.
System(encoders, scaler, cols) ==
    [label_encoders |-> encoders, feature_scaler |-> scaler,
     model_cols |-> cols]

\* What the two models give for one matrix.
Outputs == {[risk_score |-> 25, monthly_payment |-> 1500],
            [risk_score |-> 75, monthly_payment |-> 1800]}

NoOutput == [risk_score |-> 0, monthly_payment |-> 0]

\* preprocess_data(df) for the one-record frame of a request, as far as
\* it touches the system: the two encode_categorical calls.  A record
\* without loan_status is a KeyError at the second.
preprocess_data(sys, record) ==
    LET e1 == encode_categorical(sys.label_encoders,
                                 <<record.borrower_type>>, "borrower_type")
        e2 == encode_categorical(e1.encoders,
                                 <<record.loan_status>>, "loan_status")
    IN  IF e1.raised THEN [raised |-> TRUE, encoders |-> e1.encoders]
        ELSE IF record.loan_status = ""
        THEN [raised |-> TRUE, encoders |-> e1.encoders]
        ELSE [raised |-> e2.raised, encoders |-> e2.encoders]

\* predict_proba(X) and predict(X) raise on a matrix whose width is not
\* the one the models were fitted on.
PredictRaises(sys, X) == Len(X.cols) # Len(sys.model_cols)

\* generate_comprehensive_guidance(user_data) on the system sys: kept and
\* draw are what the run's random draws give, out what the models give
\* for the matrix.  stage names how far the run came: "encode" and
\* "predict" are the places an exception left it, "done" is a result.
generate_comprehensive_guidance(sys, record, kept, draw, out) ==
    LET pre == preprocess_data(sys, record)
        p == prepare_features(record, "request", kept, draw)
        after == System(pre.encoders, p.scaler, sys.model_cols)
    IN  IF pre.raised
        THEN [system |-> System(pre.encoders, sys.feature_scaler,
                                sys.model_cols),
              stage |-> "encode", X |-> NoMatrix, out |-> NoOutput]
        ELSE IF PredictRaises(sys, p.X)
        THEN [system |-> after, stage |-> "predict", X |-> p.X,
              out |-> NoOutput]
        ELSE [system |-> after, stage |-> "done", X |-> p.X, out |-> out]

\* What the random draws of one run can give: nothing is drawn from on
\* a run that preprocess_data ends, and the models give nothing for a
\* matrix they raise on.
RunChoices(sys, record) ==
    IF preprocess_data(sys, record).raised
    THEN {[kept |-> features, draw |-> 0, out |-> NoOutput]}
    ELSE UNION {
            IF PredictRaises(sys, FeatureMatrix(record, kept, 0))
            THEN {[kept |-> kept, draw |-> d, out |-> NoOutput] :
                     d \in 0..MaxDraw}
            ELSE {[kept |-> kept, draw |-> d, out |-> o] :
                     d \in 0..MaxDraw, o \in Outputs}
            : kept \in KeptChoices}

\* preprocess_data, prepare_features and train_models on a training set
\* with these borrower types and loan statuses: the system they leave.
Train(types, statuses, kept) ==
    System([n \in FieldNames |->
               IF n = "borrower_type"
               THEN Fitted(SelectSeq(CategoryOrder, LAMBDA c : c \in types))
               ELSE Fitted(SelectSeq(CategoryOrder, LAMBDA c : c \in statuses))],
           [fit_on |-> "training", cols |-> kept],
           kept)

\* The systems main() of loan_guidance.py can save as the artifact.
Artifacts ==
    {Train(FieldValues("borrower_type"), FieldValues("loan_status"), kept) :
        kept \in KeptChoices}

\* The record that load_model_from_s3 verifies the model with.
test_data == [borrower_type |-> "business", loan_status |-> "Charged Off"]

\* initialize_new_model(): a system trained on its two built-in records.
initialize_new_model(kept) == Train({"business"}, {"Charged Off", "Current"}, kept)

\* The requests of the model: what the request schema of app/main.py
\* accepts, and (loan_status "") what the one of main.py gives, which has
\* no loan_status.
AppRecords ==
    {[borrower_type |-> "business", loan_status |-> "Current"],
     [borrower_type |-> "student", loan_status |-> "Current"],
     [borrower_type |-> "retiree", loan_status |-> "Current"],
     [borrower_type |-> "business", loan_status |-> "Late"]}

RootRecords ==
    {[borrower_type |-> "business", loan_status |-> ""],
     [borrower_type |-> "retiree", loan_status |-> ""]}

NoResponse ==
    [status |-> 0, detail |-> "", record |-> NoMatrix.record, stage |-> "",
     X |-> NoMatrix, risk_score |-> 0, risk_level |-> "",
     monthly_payment |-> 0, model |-> "none"]

(***************************************************************************)
(* Numbers: Python floats are modelled as exact rationals [n, d] in lowest *)
(* terms with d > 0.                                                       *)
(***************************************************************************)
Abs(x) == IF x < 0 THEN -x ELSE x

RECURSIVE GCD(_, _)
GCD(a, b) == IF b = 0 THEN a ELSE GCD(b, a % b)

Rat(n, d) ==
    LET g == GCD(Abs(n), Abs(d))
        s == IF d < 0 THEN -1 ELSE 1
    IN  [n |-> s * (n \div g), d |-> s * (d \div g)]

RatInt(n) == [n |-> n, d |-> 1]

RatNeg(x) == [n |-> -x.n, d |-> x.d]

RatAdd(x, y) ==
    LET g == GCD(x.d, y.d) IN
    Rat(x.n * (y.d \div g) + y.n * (x.d \div g), (x.d \div g) * y.d)

RatSub(x, y) == RatAdd(x, RatNeg(y))

RatMul(x, y) ==
    LET g1 == GCD(Abs(x.n), y.d)
        g2 == GCD(Abs(y.n), x.d)
    IN  Rat((x.n \div g1) * (y.n \div g2), (x.d \div g2) * (y.d \div g1))

\* x / y for y # 0.
RatDiv(x, y) == RatMul(x, Rat(y.d, y.n))

RatLess(x, y) == x.n * y.d < y.n * x.d

\* sum(xs) of a list of integers.
RECURSIVE SumSeq(_)
SumSeq(xs) == IF xs = <<>> THEN 0 ELSE xs[1] + SumSeq(Tail(xs))

\* round(x, 2): the nearest hundredth, a tie going to the even one.
ToNearestEven(x) ==
    LET q == x.n \div x.d
        r == x.n - q * x.d
    IN  IF 2 * r < x.d THEN q
        ELSE IF 2 * r > x.d THEN q + 1
        ELSE IF q % 2 = 0 THEN q ELSE q + 1

round2(x) == Rat(ToNearestEven(RatMul(x, RatInt(100))), 100)

(***************************************************************************)
(* Dates: datetime.strptime(text, '%Y-%m-%d'), differences in days,        *)
(* timedelta(days=...) and strftime('%Y-%m-%d').  A date is [y, m, d]; a   *)
(* date text is the digits written in it and the format they are in.       *)
(***************************************************************************)
IsLeap(y) == (y % 4 = 0 /\ y % 100 # 0) \/ y % 400 = 0

DaysInMonth(y, m) ==
    IF m = 2 THEN (IF IsLeap(y) THEN 29 ELSE 28)
    ELSE IF m \in {4, 6, 9, 11} THEN 30 ELSE 31

RECURSIVE DaysBeforeMonth(_, _)
DaysBeforeMonth(y, m) ==
    IF m = 1 THEN 0 ELSE DaysBeforeMonth(y, m - 1) + DaysInMonth(y, m - 1)

\* The days before 1 January of year y, counted from 1 January of year 1.
DaysBeforeYear(y) ==
    365 * (y - 1) + ((y - 1) \div 4) - ((y - 1) \div 100) + ((y - 1) \div 400)

\* date.toordinal()
toordinal(date) ==
    DaysBeforeYear(date.y) + DaysBeforeMonth(date.y, date.m) + date.d

\* date.fromordinal(n)
fromordinal(n) ==
    LET y == CHOOSE yy \in (n \div 366)..(n \div 365 + 1) :
                 DaysBeforeYear(yy) < n /\ n <= DaysBeforeYear(yy + 1)
        m == CHOOSE mm \in 1..12 :
                 /\ DaysBeforeYear(y) + DaysBeforeMonth(y, mm) < n
                 /\ n <= DaysBeforeYear(y) + DaysBeforeMonth(y, mm)
                             + DaysInMonth(y, mm)
    IN  [y |-> y, m |-> m, d |-> n - DaysBeforeYear(y) - DaysBeforeMonth(y, m)]

IsoFormat == "%Y-%m-%d"

DateText(y, m, d, format) == [y |-> y, m |-> m, d |-> d, format |-> format]

\* datetime.strptime(text, '%Y-%m-%d'): the date, or a ValueError for a
\* text in another format or one that names no day of the calendar.
strptime(text) ==
    IF /\ text.format = IsoFormat
       /\ text.m \in 1..12
       /\ text.d \in 1..DaysInMonth(text.y, text.m)
    THEN [raised |-> FALSE, date |-> [y |-> text.y, m |-> text.m, d |-> text.d]]
    ELSE [raised |-> TRUE, date |-> [y |-> 0, m |-> 0, d |-> 0]]

\* date.strftime('%Y-%m-%d')
strftime(date) == DateText(date.y, date.m, date.d, IsoFormat)

(***************************************************************************)
(* extract_payment_features: analyze_payments on one payment history       *)
(***************************************************************************)
\* A value of a record of the history under a key, or the key's absence.
Field(v) == [present |-> TRUE, v |-> v]
NoDate == [present |-> FALSE, v |-> DateText(0, 0, 0, "")]
NoAmount == [present |-> FALSE, v |-> 0]

\* An element of the history: a dict with these keys, or something else.
PaymentDict(due_date, payment_date, amount_paid) ==
    [kind |-> "dict", due_date |-> due_date, payment_date |-> payment_date,
     amount_paid |-> amount_paid]

NotADict ==
    [kind |-> "other", due_date |-> NoDate, payment_date |-> NoDate,
     amount_paid |-> NoAmount]

\* The payment_history value: a list, a string (that eval gives a list
\* for, or that eval raises on), or None.
History(kind, evaluates, items) ==
    [kind |-> kind, evaluates |-> evaluates, items |-> items]

\* The pd.Series analyze_payments returns when it returns one.
Features(regularity, late, delay, variance, trend) ==
    [raised |-> FALSE, payment_regularity |-> regularity,
     late_payments |-> late, avg_payment_delay |-> delay,
     payment_volatility |-> [sqrt_of |-> variance], payment_trend |-> trend]

\* A feature set with a regularity of 0.
ZeroFeatures ==
    Features(RatInt(0), 0, RatInt(0), RatInt(0), RatInt(0))

\* The literal both early returns give.
NeutralFeatures ==
    Features(RatInt(1), 0, RatInt(0), RatInt(0), RatInt(0))

\* analyze_payments left by an exception.
FeaturesRaised == [NeutralFeatures EXCEPT !.raised = TRUE]

\* The difference in days, early payments counted as negative delays.
SignedDelay(payment_date, due_date) ==
    toordinal(payment_date) - toordinal(due_date)

\* max(0, (payment_date - due_date).days)
Delay(payment_date, due_date) ==
    Max(0, toordinal(payment_date) - toordinal(due_date))

\* payment[key] parsed: a KeyError for a missing key, else strptime.
ParseDate(field) ==
    IF ~field.present THEN strptime(DateText(0, 0, 0, "")) ELSE strptime(field.v)

\* The loop over the history from element i on: delays and payment_amounts
\* as appended so far, or the exception that ended it.
RECURSIVE CollectDelays(_, _, _, _)
CollectDelays(items, i, delays, payment_amounts) ==
    IF i > Len(items)
    THEN [raised |-> FALSE, delays |-> delays,
          payment_amounts |-> payment_amounts]
    ELSE LET payment == items[i] IN
         IF payment.kind # "dict"
         THEN CollectDelays(items, i + 1, delays, payment_amounts)
         ELSE LET due == ParseDate(payment.due_date)
                  paid == ParseDate(payment.payment_date)
              IN  IF due.raised \/ paid.raised
                  THEN [raised |-> TRUE, delays |-> delays,
                        payment_amounts |-> payment_amounts]
                  ELSE CollectDelays(
                           items, i + 1,
                           Append(delays, Delay(paid.date, due.date)),
                           IF payment.amount_paid.present
                           THEN Append(payment_amounts, payment.amount_paid.v)
                           ELSE payment_amounts)

\* np.diff(xs)
diff(xs) == [i \in 1..(Len(xs) - 1) |-> xs[i + 1] - xs[i]]

\* np.mean(xs) of a non-empty list of integers.
mean(xs) == Rat(SumSeq(xs), Len(xs))

\* The square of np.std(xs): the mean of the squared distances to the mean.
RECURSIVE SumSquares(_, _)
SumSquares(xs, mu) ==
    IF xs = <<>> THEN RatInt(0)
    ELSE LET dev == RatSub(RatInt(xs[1]), mu)
         IN  RatAdd(RatMul(dev, dev), SumSquares(Tail(xs), mu))

variance(xs) == RatDiv(SumSquares(xs, mean(xs)), RatInt(Len(xs)))

\* sum(1 for d in delays if d > 0)
CountLate(delays) == Cardinality({i \in 1..Len(delays) : delays[i] > 0})

\* The days a payment_regularity of 0 stands for.
RegularityDays == 30

\* The regularity floored at 0.
payment_regularity_floored(delays) ==
    IF delays = <<>> THEN RatInt(1)
    ELSE LET r == RatSub(RatInt(1),
                         Rat(SumSeq(delays), Len(delays) * RegularityDays))
         IN  IF RatLess(r, RatInt(0)) THEN RatInt(0) ELSE r

\* 1 - (sum(delays) / (len(delays) * 30)) if delays else 1
payment_regularity(delays) ==
    IF delays # <<>>
    THEN RatSub(RatInt(1), Rat(SumSeq(delays), Len(delays) * RegularityDays))
    ELSE RatInt(1)

\* The trend with the sign of the mean difference.
payment_trend_unsigned(delays) ==
    IF Len(delays) > 1 THEN mean(diff(delays)) ELSE RatInt(0)

\* payment_trend = 0; if len(delays) > 1: np.mean(np.diff(delays)) * -1
payment_trend(delays) ==
    IF Len(delays) > 1 THEN RatNeg(mean(diff(delays))) ELSE RatInt(0)

\* The statements of analyze_payments after the loop.
FeaturesOf(delays, payment_amounts) ==
    Features(payment_regularity(delays),
             CountLate(delays),
             IF delays # <<>> THEN mean(delays) ELSE RatInt(0),
             IF payment_amounts # <<>> THEN variance(payment_amounts)
             ELSE RatInt(0),
             payment_trend(delays))

analyze_payments(history) ==
    IF history.kind = "str" /\ ~history.evaluates THEN NeutralFeatures
    ELSE IF history.kind = "none" \/ history.items = <<>> THEN NeutralFeatures
    ELSE LET c == CollectDelays(history.items, 1, <<>>, <<>>) IN
         IF c.raised THEN FeaturesRaised
         ELSE FeaturesOf(c.delays, c.payment_amounts)

\* The histories of the model.
DueDates == {DateText(2023, 1, 31, IsoFormat)}

PaymentDates ==
    {DateText(2023, 1, 15, IsoFormat), DateText(2023, 1, 31, IsoFormat),
     DateText(2023, 2, 5, IsoFormat), DateText(2023, 3, 15, IsoFormat)}

Payments ==
    {PaymentDict(Field(due), Field(paid), NoAmount) :
        due \in DueDates, paid \in PaymentDates}
    \cup {PaymentDict(Field(DateText(2023, 1, 31, IsoFormat)),
                      Field(DateText(2023, 1, 31, IsoFormat)), Field(1500)),
          PaymentDict(Field(DateText(2024, 2, 28, IsoFormat)),
                      Field(DateText(2024, 3, 1, IsoFormat)), Field(1000)),
          PaymentDict(NoDate, Field(DateText(2023, 1, 31, IsoFormat)),
                      NoAmount),
          PaymentDict(Field(DateText(2023, 1, 31, IsoFormat)),
                      Field(DateText(2023, 2, 5, "%d/%m/%Y")), NoAmount),
          PaymentDict(Field(DateText(2023, 1, 31, IsoFormat)),
                      Field(DateText(2023, 2, 30, IsoFormat)), NoAmount),
          NotADict}

Histories ==
    {History("list", FALSE, items) : items \in SeriesUpTo(Payments, MaxHistory)}
    \cup {History("str", TRUE, items) :
             items \in SeriesUpTo(Payments, MaxHistory)}
    \cup {History("str", FALSE, <<>>), History("none", FALSE, <<>>)}

NoHistory == History("none", FALSE, <<>>)

(***************************************************************************)
(* safe_divide                                                             *)
(***************************************************************************)
\* A float: a number, or one of nan, inf, -inf.
Num(q) == [kind |-> "num", q |-> q]
NaN == [kind |-> "nan", q |-> RatInt(0)]
Inf == [kind |-> "inf", q |-> RatInt(0)]
NegInf == [kind |-> "-inf", q |-> RatInt(0)]

\* An argument or a result: a scalar (int or float), None, or a pd.Series.
Scalar(x) == [t |-> "scalar", x |-> x, xs |-> <<>>]
None == [t |-> "none", x |-> Num(RatInt(0)), xs |-> <<>>]
Series(xs) == [t |-> "series", x |-> Num(RatInt(0)), xs |-> xs]

IsZero(x) == x.kind = "num" /\ x.q.n = 0
IsInfinite(x) == x.kind \in {"inf", "-inf"}
SignOf(x) ==
    IF x.kind = "inf" THEN 1 ELSE IF x.kind = "-inf" THEN -1
    ELSE IF x.kind = "num" /\ x.q.n < 0 THEN -1 ELSE 1

\* x / y in float arithmetic, for y that is not zero.
FloatDiv(x, y) ==
    IF x.kind = "nan" \/ y.kind = "nan" THEN NaN
    ELSE IF IsInfinite(x) /\ IsInfinite(y) THEN NaN
    ELSE IF IsInfinite(x) THEN (IF SignOf(x) * SignOf(y) > 0 THEN Inf ELSE NegInf)
    ELSE IF IsInfinite(y) THEN Num(RatInt(0))
    ELSE Num(RatDiv(x.q, y.q))

\* b.replace(0, np.nan)
ReplaceZero(xs) == [i \in 1..Len(xs) |-> IF IsZero(xs[i]) THEN NaN ELSE xs[i]]

\* result.fillna(0).replace([np.inf, -np.inf], 0)
FillAndReplace(xs) ==
    [i \in 1..Len(xs) |->
        IF xs[i].kind = "num" THEN xs[i] ELSE Num(RatInt(0))]

\* a / b of two Series: element by element on the union of the indexes,
\* nan where one of them has no element.
SeriesDiv(xs, ys) ==
    [i \in 1..Max(Len(xs), Len(ys)) |->
        IF i <= Len(xs) /\ i <= Len(ys) THEN FloatDiv(xs[i], ys[i]) ELSE NaN]

Returned(v) == [raised |-> FALSE, v |-> v]
DivRaised == [raised |-> TRUE, v |-> None]

\* a / b for a scalar b that is not zero, or for a Series b without zeros.
Divide(a, b) ==
    IF a.t = "none" \/ b.t = "none" THEN DivRaised        \* TypeError
    ELSE IF a.t = "scalar" /\ b.t = "scalar"
    THEN Returned(Scalar(FloatDiv(a.x, b.x)))
    ELSE IF a.t = "series" /\ b.t = "scalar"
    THEN Returned(Series([i \in 1..Len(a.xs) |-> FloatDiv(a.xs[i], b.x)]))
    ELSE IF a.t = "scalar" /\ b.t = "series"
    THEN Returned(Series([i \in 1..Len(b.xs) |-> FloatDiv(a.x, b.xs[i])]))
    ELSE Returned(Series(SeriesDiv(a.xs, b.xs)))

safe_divide(a, b) ==
    LET result ==
            IF b.t = "scalar"
            THEN IF ~IsZero(b.x) THEN Divide(a, b)
                 ELSE Returned(Scalar(Num(RatInt(0))))
            ELSE IF b.t = "none" THEN DivRaised        \* AttributeError
            ELSE Divide(a, Series(ReplaceZero(b.xs)))
    IN  IF result.raised THEN DivRaised
        ELSE IF result.v.t = "series"
        THEN Returned(Series(FillAndReplace(result.v.xs)))
        ELSE result

\* The arguments of the model.
Floats == {Num(RatInt(0)), Num(RatInt(1)), Num(RatInt(-2)), NaN, Inf}

DivArgs ==
    {Scalar(x) : x \in Floats} \cup {None}
    \cup {Series(xs) : xs \in SeriesUpTo(Floats, MaxVector)}

(***************************************************************************)
(* create_detailed_schedule and calculate_early_payment_benefits           *)
(***************************************************************************)
\* loan_details and monthly_payment of a create_detailed_schedule call.
LoanDetails(loan_amount, interest_rate, loan_term_months, monthly_payment) ==
    [loan_amount |-> loan_amount, interest_rate |-> interest_rate,
     loan_term_months |-> loan_term_months,
     monthly_payment |-> monthly_payment]

\* max(0, x)
RatMax0(x) == IF x.n < 0 THEN RatInt(0) ELSE x

\* The months of a year of monthly interest, in percent of a rate.
PercentMonths == 1200

\* The days from one payment date to the next.
PeriodDays == 30

\* The days the two early reminders come before the payment date.
ReminderDays == <<7, 3>>

\* The interest of a period charged on the original loan amount.
interest_payment_flat(remaining_balance, details) ==
    RatMul(details.loan_amount,
           Rat(details.interest_rate.n,
               details.interest_rate.d * PercentMonths))

\* The interest on the balance that is reported, which is never negative.
interest_payment_floored(remaining_balance, details) ==
    RatMul(RatMax0(remaining_balance),
           Rat(details.interest_rate.n,
               details.interest_rate.d * PercentMonths))

\* interest_payment = (remaining_balance * interest_rate) / 1200
interest_payment(remaining_balance, details) ==
    RatMul(remaining_balance,
           Rat(details.interest_rate.n,
               details.interest_rate.d * PercentMonths))

\* The dict one iteration appends: month counts from 0, today is the day
\* datetime.now() shows in this iteration, balance the remaining balance
\* after the iteration's subtraction.
ScheduleEntry(month, today, monthly_payment, principal, interest, balance) ==
    LET payment_date == today + PeriodDays * month IN
    [payment_number |-> month + 1,
     due_date |-> strftime(fromordinal(payment_date)),
     payment_amount |-> round2(monthly_payment),
     principal |-> round2(principal),
     interest |-> round2(interest),
     remaining_balance |-> round2(RatMax0(balance)),
     reminder_dates |->
         <<strftime(fromordinal(payment_date - ReminderDays[1])),
           strftime(fromordinal(payment_date - ReminderDays[2])),
           strftime(fromordinal(payment_date))>>]

\* The loop of create_detailed_schedule from iteration month on.  The
\* clock shows the day start until the iteration numbered midnight and
\* the next day from that iteration on.
RECURSIVE ScheduleLoop(_, _, _, _, _, _)
ScheduleLoop(details, month, remaining_balance, start, midnight, sched) ==
    IF month >= details.loan_term_months THEN sched
    ELSE LET today == IF month >= midnight THEN start + 1 ELSE start
             interest == interest_payment(remaining_balance, details)
             principal == RatSub(details.monthly_payment, interest)
             balance == RatSub(remaining_balance, principal)
         IN  ScheduleLoop(details, month + 1, balance, start, midnight,
                          Append(sched,
                                 ScheduleEntry(month, today,
                                               details.monthly_payment,
                                               principal, interest, balance)))

\* The same loop, keeping what each iteration computes instead of the dict
\* it appends.
RECURSIVE LocalsLoop(_, _, _, _)
LocalsLoop(details, month, remaining_balance, locals) ==
    IF month >= details.loan_term_months THEN locals
    ELSE LET interest == interest_payment(remaining_balance, details)
             principal == RatSub(details.monthly_payment, interest)
             balance == RatSub(remaining_balance, principal)
         IN  LocalsLoop(details, month + 1, balance,
                        Append(locals,
                               [interest_payment |-> interest,
                                principal_payment |-> principal,
                                remaining_balance |-> balance]))

create_detailed_schedule(details, start, midnight) ==
    ScheduleLoop(details, 0, details.loan_amount, start, midnight,
                 <<>>)

\* The calls of the model: without interest up to MaxTerm months, with
\* interest up to MaxRatedTerm months, the last ones paying more than is
\* owed.
ScheduleCalls ==
    {LoanDetails(RatInt(a), RatInt(0), t, p) :
        a \in {1200, 1000}, t \in 1..MaxTerm,
        p \in {RatInt(100), Rat(1000, 3)}}
    \cup {LoanDetails(a, RatInt(r), t, p) :
             a \in {RatInt(1200), Rat(100001, 100)}, r \in {60, 100},
             t \in 1..MaxRatedTerm,
             p \in {RatInt(100), RatInt(700), Rat(1000, 3)}}
    \cup {LoanDetails(RatInt(1200), RatInt(r), t, RatInt(1300)) :
             r \in {60, 100}, t \in 1..MaxRatedTerm}

\* The days the clock can show when a call starts.
StartDays ==
    {toordinal([y |-> 2023, m |-> 1, d |-> 31]),
     toordinal([y |-> 2023, m |-> 12, d |-> 5])}

NoLoan == LoanDetails(RatInt(0), RatInt(0), 0, RatInt(0))

\* The months calculate_early_payment_benefits shortens the term by.
EarlyMonths == 6

\* total(t) = loan_amount * (1 + interest_rate * t / 12), interest_rate
\* being the rate divided by 100.
TotalRepayment(loan_amount, interest_rate, term_months) ==
    RatMul(loan_amount,
           RatAdd(RatInt(1),
                  RatDiv(RatMul(interest_rate, RatInt(term_months)),
                         RatInt(12))))

\* The benefits computed against a term of half the length.
benefits_of_half_term(data) ==
    LET interest_rate == RatDiv(data.interest_rate, RatInt(100))
        regular_total == TotalRepayment(data.loan_amount, interest_rate,
                                        data.loan_term_months)
        early_total == TotalRepayment(data.loan_amount, interest_rate,
                                      data.loan_term_months \div 2)
    IN  [potential_savings |-> round2(RatSub(regular_total, early_total)),
         time_saved |-> data.loan_term_months
                            - data.loan_term_months \div 2,
         reduced_interest |-> round2(RatSub(regular_total, early_total))]

calculate_early_payment_benefits(data) ==
    LET interest_rate == RatDiv(data.interest_rate, RatInt(100))
        regular_total == TotalRepayment(data.loan_amount, interest_rate,
                                        data.loan_term_months)
        early_total == TotalRepayment(data.loan_amount, interest_rate,
                                      data.loan_term_months - EarlyMonths)
    IN  [potential_savings |-> round2(RatSub(regular_total, early_total)),
         time_saved |-> EarlyMonths,
         reduced_interest |-> round2(RatSub(regular_total, early_total))]

\* The user_data of the model, as far as the benefits read it.
EarlyCalls ==
    {LoanDetails(a, r, t, RatInt(0)) :
        a \in {RatInt(1200), RatInt(50000), Rat(100001, 100)},
        r \in {RatInt(0), RatInt(1), Rat(17, 2)},
        t \in 1..MaxEarlyTerm}

NoBenefits ==
    [potential_savings |-> RatInt(0), time_saved |-> 0,
     reduced_interest |-> RatInt(0)]

(***************************************************************************)
(* The rules of the guidance package: identify_risk_factors,               *)
(* get_risk_mitigation_strategies, generate_smart_recommendations and      *)
(* generate_monitoring_plan.  Amounts are whole numbers, the risk score is *)
(* in hundredths like every score of the model.                            *)
(***************************************************************************)
\* The fields of user_data the rules read.
UserData(credit_score, loan_amount, monthly_income, loan_term_months, age, borrower_type) ==
    [credit_score |-> credit_score, loan_amount |-> loan_amount,
     monthly_income |-> monthly_income,
     loan_term_months |-> loan_term_months, age |-> age,
     borrower_type |-> borrower_type]

LowCreditBelow == 650
HighDtiAbove == Rat(2, 5)
YoungBelow == 25

Factor(factor, impact) == [factor |-> factor, impact |-> impact]

\* dti = loan_amount / (monthly_income * loan_term_months)
DebtToIncome(data) ==
    RatDiv(RatInt(data.loan_amount),
           RatInt(data.monthly_income * data.loan_term_months))

\* identify_risk_factors with each threshold counted as a risk.
identify_risk_factors_inclusive(data) ==
    (IF data.credit_score <= LowCreditBelow
     THEN <<Factor("Low Credit Score", "High")>> ELSE <<>>)
    \o (IF ~RatLess(DebtToIncome(data), HighDtiAbove)
        THEN <<Factor("High Debt-to-Income Ratio", "High")>> ELSE <<>>)
    \o (IF data.age <= YoungBelow
        THEN <<Factor("Limited Credit History", "Medium")>> ELSE <<>>)

identify_risk_factors(data) ==
    (IF data.credit_score < LowCreditBelow
     THEN <<Factor("Low Credit Score", "High")>> ELSE <<>>)
    \o (IF RatLess(HighDtiAbove, DebtToIncome(data))
        THEN <<Factor("High Debt-to-Income Ratio", "High")>> ELSE <<>>)
    \o (IF data.age < YoungBelow
        THEN <<Factor("Limited Credit History", "Medium")>> ELSE <<>>)

\* strategies.get(risk_level, [])
get_risk_mitigation_strategies(level) ==
    CASE level = "Low Risk" ->
           <<"Continue regular payments", "Consider early payment options",
             "Build emergency fund">>
      [] level = "Moderate Risk" ->
           <<"Set up automatic payments", "Create strict budget",
             "Build larger emergency fund">>
      [] level = "High Risk" ->
           <<"Consider loan restructuring", "Seek financial counseling",
             "Explore additional income sources">>
      [] OTHER -> <<>>

\* risk_score is rounded to four decimals; a score in hundredths has two.
generate_risk_assessment(score, data) ==
    [risk_level |-> categorize_risk(score),
     risk_score |-> score,
     key_factors |-> identify_risk_factors(data),
     mitigation_strategies |->
         get_risk_mitigation_strategies(categorize_risk(score))]

LongLoanAbove == 24
SevereScoreAbove == 60
ElevatedScoreAbove == 30
FairCreditBelow == 700

type_specific_recs(borrower_type) ==
    CASE borrower_type = "farmer" ->
           <<"Time payments with harvest cycles",
             "Consider crop insurance for risk mitigation",
             "Explore government agricultural subsidies">>
      [] borrower_type = "student" ->
           <<"Look for part-time work opportunities",
             "Apply for educational scholarships",
             "Consider income-based repayment options">>
      [] borrower_type = "business" ->
           <<"Align payments with business cash flow cycles",
             "Maintain separate business and personal accounts",
             "Explore invoice financing options">>
      [] OTHER -> <<>>

generate_smart_recommendations(data, score) ==
    [payment_strategy |->
         (IF RatLess(RatInt(LongLoanAbove),
                     Rat(data.loan_amount, data.monthly_income))
          THEN <<"Consider bi-weekly payments to reduce interest",
                 "Allocate year-end bonus to loan payment">>
          ELSE <<>>)
         \o type_specific_recs(data.borrower_type),
     risk_mitigation |->
         IF score > SevereScoreAbove
         THEN <<"Build emergency fund of 6 months",
                "Consider payment protection insurance",
                "Set up automatic payments to avoid delays">>
         ELSE IF score > ElevatedScoreAbove
         THEN <<"Build emergency fund of 3 months",
                "Review monthly budget",
                "Consider income diversification">>
         ELSE <<>>,
     financial_planning |->
         IF data.credit_score < FairCreditBelow
         THEN <<"Focus on improving credit score",
                "Review and dispute any credit report errors",
                "Minimize new credit applications">>
         ELSE <<>>]

QuarterlyBelow == 30
MonthlyBelow == 70
AlertMissedPayments == 1
AlertCreditScoreDrop == 50
AlertIncomeChange == 20

alert_thresholds ==
    [missed_payments |-> AlertMissedPayments,
     credit_score_drop |-> AlertCreditScoreDrop,
     income_change |-> AlertIncomeChange]

MonitoringPlan(frequency, checks) ==
    [monitoring_frequency |-> frequency, required_checks |-> checks,
     alert_thresholds |-> alert_thresholds]

\* generate_monitoring_plan with the thresholds counted to the lower band.
generate_monitoring_plan_inclusive(score) ==
    IF score <= QuarterlyBelow
    THEN MonitoringPlan("Quarterly", <<"Payment History", "Credit Score">>)
    ELSE IF score <= MonthlyBelow
    THEN MonitoringPlan("Monthly", <<"Payment History", "Credit Score",
                                     "Income Verification">>)
    ELSE MonitoringPlan("Weekly", <<"Payment History", "Credit Score",
                                    "Income Verification",
                                    "Expense Tracking">>)

generate_monitoring_plan(score) ==
    IF score < QuarterlyBelow
    THEN MonitoringPlan("Quarterly", <<"Payment History", "Credit Score">>)
    ELSE IF score < MonthlyBelow
    THEN MonitoringPlan("Monthly", <<"Payment History", "Credit Score",
                                     "Income Verification">>)
    ELSE MonitoringPlan("Weekly", <<"Payment History", "Credit Score",
                                    "Income Verification",
                                    "Expense Tracking">>)

\* The entries of the guidance dict that the rules fill.
GuidanceOf(data, score) ==
    [risk_assessment |-> generate_risk_assessment(score, data),
     recommendations |-> generate_smart_recommendations(data, score),
     monitoring_plan |-> generate_monitoring_plan(score)]

\* The calls the model makes: every score, and user_data on, next to and
\* away from each threshold.
CreditScores == {LowCreditBelow - 1, LowCreditBelow, FairCreditBelow - 1,
                 FairCreditBelow}
Ages == {YoungBelow - 1, YoungBelow}
BorrowerTypes == {"farmer", "student", "business", "retiree"}
\* <<loan_amount, monthly_income, loan_term_months>>: dti 0.3999, 0.4 and
\* 0.4001, then loan_amount / monthly_income 24 and 24.001.
Loans == {<<3999, 1000, 10>>, <<4000, 1000, 10>>, <<4001, 1000, 10>>,
          <<24000, 1000, 100>>, <<24001, 1000, 100>>}

GuideCalls ==
    {[user_data |-> UserData(c, l[1], l[2], l[3], a, b), risk_score |-> s] :
        c \in CreditScores, l \in Loans, a \in Ages, b \in BorrowerTypes,
        s \in 0..MaxScore}

NoProfile ==
    [user_data |-> UserData(0, 0, 1, 1, 0, ""), risk_score |-> 0]

NoGuidance == GuidanceOf(NoProfile.user_data, 0)

(***************************************************************************)
(* Requests that run generate_comprehensive_guidance on one loaded system  *)
(* at the same time.  A request is followed through the calls that touch   *)
(* the system: preprocess_data (the encoders), feature_scaler.fit and      *)
(* feature_scaler.transform (fit_transform is fit(X).transform(X)), and    *)
(* the models' predict.                                                    *)
(***************************************************************************)
Threads == {1, 2}

\* A request: its record, where it is, and the locals of its run - the
\* columns and draws of its matrix X, and the mean_ its X was scaled with.
Request(pc, record, X, scaled_with, stage) ==
    [pc |-> pc, record |-> record, X |-> X, scaled_with |-> scaled_with,
     stage |-> stage]

NoRequest == Request("idle", NoMatrix.record, NoMatrix, NoMatrix, "")

\* mean_ after training: the rows of the training set.
TrainingRows ==
    FeatureMatrix([borrower_type |-> "training", loan_status |-> "training"],
                  features, 0)

\* The feature lists followed here: every feature, and all but the last.
ConcKept == {features, Keep({"borrower_type_freq"})}

\* The loaded systems followed here.
ConcArtifacts ==
    {Train(FieldValues("borrower_type"), FieldValues("loan_status"), kept) :
        kept \in ConcKept}

(***************************************************************************)
(* LoanSystem._get_summary_schedule.  The schedule comes from the loaded   *)
(* loan system: a list of dicts, one per payment, numbered from 1, which   *)
(* a dict with payment_number "summary" may follow.                        *)
(***************************************************************************)
Payment(number) == [payment_number |-> PyInt(number)]

SummaryEntry == [payment_number |-> PyStr("summary")]

FirstKept == 3
FromEnd == 2

\* for i, payment in enumerate(schedule): the test on index i, from 0.
Selected(sched, i) ==
    \/ i < FirstKept
    \/ sched[i + 1].payment_number = PyStr("summary")
    \/ i = Len(sched) - FromEnd

_get_summary_schedule(sched) ==
    IF sched = <<>> THEN <<>>
    ELSE LET At(i) == Selected(sched, i - 1)
             kept == SelectSeq([i \in 1..Len(sched) |-> i], At)
         IN  [j \in 1..Len(kept) |-> sched[kept[j]]]

\* The schedules of the model: up to MaxSchedule payments, with and
\* without the summary entry.
Schedules ==
    {[i \in 1..n |-> Payment(i)] : n \in 0..MaxSchedule}
    \cup {Append([i \in 1..n |-> Payment(i)], SummaryEntry) :
             n \in 0..MaxSchedule}

(***************************************************************************)
(* Initial values of the parts a specification does not exercise.          *)
(***************************************************************************)
SectorIdle ==
    /\ sector_data = [kind |-> "other", items |-> <<>>, evals |-> FALSE]
    /\ sector_pc = "idle"
    /\ sector_risk = 0

RuleIdle ==
    /\ risk_score = 0
    /\ rule_pc = "idle"
    /\ risk_level = ""

EncIdle ==
    /\ label_encoders = [n \in FieldNames |-> Unfitted]
    /\ enc_result = NoEncResult

SvcIdle ==
    /\ service = "app"
    /\ svc_pc = "idle"
    /\ gs_origin = "none"
    /\ feature_scaler = UnfittedScaler
    /\ model_cols = <<>>
    /\ response = NoResponse

PayIdle ==
    /\ payment_history = NoHistory
    /\ pay_pc = "idle"
    /\ payment_features = NeutralFeatures

DivIdle ==
    /\ div_args = [a |-> None, b |-> None]
    /\ div_pc = "idle"
    /\ div_result = DivRaised

SchedIdle ==
    /\ loan_details = NoLoan
    /\ now = 0
    /\ schedule_pc = "idle"
    /\ schedule = <<>>
    /\ schedule_locals = <<>>

EarlyIdle ==
    /\ user_data = NoLoan
    /\ early_pc = "idle"
    /\ early_payment_benefits = NoBenefits

GuideIdle ==
    /\ guide_data = NoProfile
    /\ guide_pc = "idle"
    /\ guidance = NoGuidance

ConcIdle ==
    /\ requests = [t \in Threads |-> NoRequest]
    /\ scaler_mean = NoMatrix

SumIdle ==
    /\ full_schedule = <<>>
    /\ summary_pc = "idle"
    /\ schedule_summary = <<>>

MoreIdle == GuideIdle /\ ConcIdle /\ SumIdle

CalcIdle == PayIdle /\ DivIdle /\ SchedIdle /\ EarlyIdle /\ MoreIdle

ModelIdle == SectorIdle /\ RuleIdle /\ EncIdle /\ SvcIdle

(***************************************************************************)
(* The sector risk of one request's sector_data: validated by the request  *)
(* model or not, then scored.                                              *)
(***************************************************************************)
InitSector ==
    /\ sector_data \in SectorArgs
    /\ sector_pc = "new"
    /\ sector_risk = 0
    /\ RuleIdle
    /\ EncIdle
    /\ SvcIdle
    /\ CalcIdle

\* LoanRequest(sector_data=...): the field's type, then the validator.
ValidateSectorData ==
    /\ sector_pc = "new"
    /\ IF SectorDataTypeOk(sector_data) /\ validate_sector_data(sector_data.items)
       THEN \E as_str \in BOOLEAN :
               /\ sector_data' = CoerceSectorData(sector_data, as_str)
               /\ sector_pc' = "validated"
       ELSE /\ sector_pc' = "rejected"
            /\ UNCHANGED sector_data
    /\ UNCHANGED <<sector_risk, ruleVars, encVars, svcVars, calcVars>>

\* df['sector_data'].apply(self.calculate_sector_risk) on the record.
CalculateSectorRisk ==
    /\ sector_pc \in {"new", "validated"}
    /\ sector_risk' = calculate_sector_risk(sector_data)
    /\ sector_pc' = "scored"
    /\ UNCHANGED <<sector_data, ruleVars, encVars, svcVars, calcVars>>

NextSector == ValidateSectorData \/ CalculateSectorRisk

SpecSector == InitSector /\ [][NextSector]_vars

(***************************************************************************)
(* The guidance rules on one risk score.                                   *)
(***************************************************************************)
InitRule ==
    /\ risk_score \in 0..MaxScore
    /\ rule_pc = "new"
    /\ risk_level = ""
    /\ SectorIdle
    /\ EncIdle
    /\ SvcIdle
    /\ CalcIdle

\* risk_level = self.categorize_risk(risk_score)
CategorizeRisk ==
    /\ rule_pc = "new"
    /\ risk_level' = categorize_risk(risk_score)
    /\ rule_pc' = "done"
    /\ UNCHANGED <<risk_score, sectorVars, encVars, svcVars, calcVars>>

NextRule == CategorizeRisk

SpecRule == InitRule /\ [][NextRule]_vars

(***************************************************************************)
(* A fresh AdvancedLoanGuidanceSystem and the encode_categorical calls     *)
(* made on it.                                                             *)
(***************************************************************************)
InitEnc ==
    /\ label_encoders = [n \in FieldNames |-> Unfitted]
    /\ enc_result = NoEncResult
    /\ SectorIdle
    /\ RuleIdle
    /\ SvcIdle
    /\ CalcIdle

EncodeCategorical ==
    \E name \in FieldNames :
      \E series \in SeriesUpTo(FieldValues(name), MaxSeries) :
        LET r == encode_categorical(label_encoders, series, name) IN
        /\ label_encoders' = r.encoders
        /\ enc_result' = [called |-> TRUE, name |-> name, series |-> series,
                          raised |-> r.raised, codes |-> r.codes]
        /\ UNCHANGED <<sectorVars, ruleVars, svcVars, calcVars>>

NextEnc == EncodeCategorical

SpecEnc == InitEnc /\ [][NextEnc]_vars

(***************************************************************************)
(* analyze_payments on one payment history.                                *)
(***************************************************************************)
InitPay ==
    /\ payment_history \in Histories
    /\ pay_pc = "new"
    /\ payment_features = NeutralFeatures
    /\ ModelIdle
    /\ DivIdle /\ SchedIdle /\ EarlyIdle /\ MoreIdle

\* payment_history.apply(analyze_payments), for one element.
AnalyzePayments ==
    /\ pay_pc = "new"
    /\ payment_features' = analyze_payments(payment_history)
    /\ pay_pc' = "done"
    /\ UNCHANGED <<payment_history, sectorVars, ruleVars, encVars, svcVars,
                   divVars, schedVars, earlyVars, moreVars>>

NextPay == AnalyzePayments

SpecPay == InitPay /\ [][NextPay]_vars

(***************************************************************************)
(* One safe_divide call.                                                   *)
(***************************************************************************)
InitDiv ==
    /\ div_args \in {[a |-> a, b |-> b] : a \in DivArgs, b \in DivArgs}
    /\ div_pc = "new"
    /\ div_result = DivRaised
    /\ ModelIdle
    /\ PayIdle /\ SchedIdle /\ EarlyIdle /\ MoreIdle

SafeDivide ==
    /\ div_pc = "new"
    /\ div_result' = safe_divide(div_args.a, div_args.b)
    /\ div_pc' = "done"
    /\ UNCHANGED <<div_args, sectorVars, ruleVars, encVars, svcVars,
                   payVars, schedVars, earlyVars, moreVars>>

NextDiv == SafeDivide

SpecDiv == InitDiv /\ [][NextDiv]_vars

(***************************************************************************)
(* One create_detailed_schedule call, started on the day now.              *)
(***************************************************************************)
InitSched ==
    /\ loan_details \in ScheduleCalls
    /\ now \in StartDays
    /\ schedule_pc = "new"
    /\ schedule = <<>>
    /\ schedule_locals = <<>>
    /\ ModelIdle
    /\ PayIdle /\ DivIdle /\ EarlyIdle /\ MoreIdle

\* The whole call.  Every iteration reads datetime.now(): the day changes
\* before the iteration numbered midnight, or (midnight = the term) not
\* while the loop runs.
CreateDetailedSchedule ==
    /\ schedule_pc = "new"
    /\ \E midnight \in 1..loan_details.loan_term_months :
          /\ schedule' = create_detailed_schedule(loan_details, now, midnight)
          /\ now' = IF midnight < loan_details.loan_term_months
                    THEN now + 1 ELSE now
    /\ schedule_locals' = LocalsLoop(loan_details, 0, loan_details.loan_amount,
                                     <<>>)
    /\ schedule_pc' = "done"
    /\ UNCHANGED <<loan_details, sectorVars, ruleVars, encVars, svcVars,
                   payVars, divVars, earlyVars, moreVars>>

NextSched == CreateDetailedSchedule

SpecSched == InitSched /\ [][NextSched]_vars

(***************************************************************************)
(* One calculate_early_payment_benefits call.                              *)
(***************************************************************************)
InitEarly ==
    /\ user_data \in EarlyCalls
    /\ early_pc = "new"
    /\ early_payment_benefits = NoBenefits
    /\ ModelIdle
    /\ PayIdle /\ DivIdle /\ SchedIdle /\ MoreIdle

CalculateEarlyPaymentBenefits ==
    /\ early_pc = "new"
    /\ early_payment_benefits' = calculate_early_payment_benefits(user_data)
    /\ early_pc' = "done"
    /\ UNCHANGED <<user_data, sectorVars, ruleVars, encVars, svcVars,
                   payVars, divVars, schedVars, moreVars>>

NextEarly == CalculateEarlyPaymentBenefits

SpecEarly == InitEarly /\ [][NextEarly]_vars

(***************************************************************************)
(* The rule-based entries of one guidance package: the risk assessment,    *)
(* the recommendations and the monitoring plan that                        *)
(* generate_comprehensive_guidance builds from user_data and the predicted *)
(* risk score.                                                             *)
(***************************************************************************)
InitGuide ==
    /\ guide_data \in GuideCalls
    /\ guide_pc = "new"
    /\ guidance = NoGuidance
    /\ ModelIdle
    /\ PayIdle /\ DivIdle /\ SchedIdle /\ EarlyIdle
    /\ ConcIdle /\ SumIdle

GenerateGuidance ==
    /\ guide_pc = "new"
    /\ guidance' = GuidanceOf(guide_data.user_data, guide_data.risk_score)
    /\ guide_pc' = "done"
    /\ UNCHANGED <<guide_data, sectorVars, ruleVars, encVars, svcVars,
                   payVars, divVars, schedVars, earlyVars, concVars,
                   sumVars>>

NextGuide == GenerateGuidance

SpecGuide == InitGuide /\ [][NextGuide]_vars

(***************************************************************************)
(* One _get_summary_schedule call.                                         *)
(***************************************************************************)
InitSummary ==
    /\ full_schedule \in Schedules
    /\ summary_pc = "new"
    /\ schedule_summary = <<>>
    /\ ModelIdle
    /\ PayIdle /\ DivIdle /\ SchedIdle /\ EarlyIdle
    /\ GuideIdle /\ ConcIdle

GetSummarySchedule ==
    /\ summary_pc = "new"
    /\ schedule_summary' = _get_summary_schedule(full_schedule)
    /\ summary_pc' = "done"
    /\ UNCHANGED <<full_schedule, sectorVars, ruleVars, encVars, svcVars,
                   payVars, divVars, schedVars, earlyVars, guideVars,
                   concVars>>

NextSummary == GetSummarySchedule

SpecSummary == InitSummary /\ [][NextSummary]_vars

(***************************************************************************)
(* The two services: start-up, then requests.                              *)
(***************************************************************************)
Init ==
    /\ service \in {"app", "root"}
    /\ svc_pc = "start"
    /\ gs_origin = "none"
    /\ label_encoders = [n \in FieldNames |-> Unfitted]
    /\ enc_result = NoEncResult
    /\ feature_scaler = UnfittedScaler
    /\ model_cols = <<>>
    /\ response = NoResponse
    /\ SectorIdle
    /\ RuleIdle
    /\ CalcIdle

\* The current guidance_system object.
Current == System(label_encoders, feature_scaler, model_cols)

Install(sys, origin) ==
    /\ label_encoders' = sys.label_encoders
    /\ feature_scaler' = sys.feature_scaler
    /\ model_cols' = sys.model_cols
    /\ gs_origin' = origin

\* app/main.py, startup_event: load_model_from_s3 downloads and loads the
\* artifact and its verification run on test_data succeeds.
StartupLoaded ==
    /\ service = "app" /\ svc_pc = "start"
    /\ \E art \in Artifacts :
          \E c \in RunChoices(art, test_data) :
             LET g == generate_comprehensive_guidance(art, test_data, c.kept,
                                                      c.draw, c.out) IN
             /\ g.stage = "done"
             /\ Install(g.system, "artifact")
    /\ svc_pc' = "serving"
    /\ UNCHANGED <<service, response, enc_result, sectorVars, ruleVars, calcVars>>

\* The load fails (the download, joblib.load or the verification run
\* raises): load_model_from_s3 returns initialize_new_model().
LoadFails ==
    \/ TRUE         \* s3.download_file or joblib.load raises
    \/ \E art \in Artifacts :
          \E c \in RunChoices(art, test_data) :
             generate_comprehensive_guidance(art, test_data, c.kept, c.draw,
                                             c.out).stage # "done"

StartupFabricated ==
    /\ service = "app" /\ svc_pc = "start"
    /\ LoadFails
    /\ \E kept \in KeptChoices : Install(initialize_new_model(kept), "fabricated")
    /\ svc_pc' = "serving"
    /\ UNCHANGED <<service, response, enc_result, sectorVars, ruleVars, calcVars>>

\* The load fails and initialize_new_model() raises too: startup_event
\* re-raises and the application does not start.
StartupCrashed ==
    /\ service = "app" /\ svc_pc = "start"
    /\ LoadFails
    /\ svc_pc' = "crashed"
    /\ UNCHANGED <<service, gs_origin, label_encoders, feature_scaler,
                   model_cols, response, enc_result, sectorVars, ruleVars,
                   calcVars>>

\* main.py at import: guidance_system = joblib.load(MODEL_PATH).
ImportLoaded ==
    /\ service = "root" /\ svc_pc = "start"
    /\ \E art \in Artifacts : Install(art, "artifact")
    /\ svc_pc' = "serving"
    /\ UNCHANGED <<service, response, enc_result, sectorVars, ruleVars, calcVars>>

\* main.py at import: joblib.load raises, guidance_system = None.
ImportFailed ==
    /\ service = "root" /\ svc_pc = "start"
    /\ svc_pc' = "serving"
    /\ UNCHANGED <<service, gs_origin, label_encoders, feature_scaler,
                   model_cols, response, enc_result, sectorVars, ruleVars,
                   calcVars>>

\* The answer to a run of generate_comprehensive_guidance: the result, or
\* the status the handler's except clause gives an exception.
Answer(record, g, error_status) ==
    [status |-> IF g.stage = "done" THEN 200 ELSE error_status,
     detail |-> IF g.stage = "done" THEN "" ELSE "exception",
     record |-> record, stage |-> g.stage, X |-> g.X,
     risk_score |-> g.out.risk_score,
     risk_level |-> IF g.stage = "done"
                    THEN categorize_risk(g.out.risk_score) ELSE "",
     monthly_payment |-> g.out.monthly_payment,
     model |-> gs_origin]

Unavailable(record, status) ==
    [NoResponse EXCEPT !.status = status, !.detail = "Model not loaded",
                       !.record = record]

\* predict_proba and predict are functions of the fitted models and the
\* matrix: a matrix equal to the one of the last answer gets its outputs.
ModelsGive(out, X) ==
    (response.stage = "done" /\ response.X = X) =>
        (out.risk_score = response.risk_score
         /\ out.monthly_payment = response.monthly_payment)

\* One request handled by handler code that answers unavailable_status
\* without a model and error_status to an exception.
HandleRequest(record, unavailable_status, error_status) ==
    IF gs_origin = "none"
    THEN /\ response' = Unavailable(record, unavailable_status)
         /\ UNCHANGED <<label_encoders, feature_scaler, model_cols>>
    ELSE \E c \in RunChoices(Current, record) :
            LET g == generate_comprehensive_guidance(Current, record, c.kept,
                                                     c.draw, c.out) IN
            /\ ModelsGive(c.out, g.X)
            /\ response' = Answer(record, g, error_status)
            /\ label_encoders' = g.system.label_encoders
            /\ feature_scaler' = g.system.feature_scaler
            /\ model_cols' = g.system.model_cols

\* app/main.py, POST /analyze-loan.
AnalyzeLoan ==
    /\ service = "app" /\ svc_pc = "serving"
    /\ \E record \in AppRecords : HandleRequest(record, 500, 500)
    /\ UNCHANGED <<service, svc_pc, gs_origin, enc_result, sectorVars,
                   ruleVars, calcVars>>

\* main.py, POST /predict.
PredictLoan ==
    /\ service = "root" /\ svc_pc = "serving"
    /\ \E record \in RootRecords : HandleRequest(record, 503, 400)
    /\ UNCHANGED <<service, svc_pc, gs_origin, enc_result, sectorVars,
                   ruleVars, calcVars>>

Next ==
    \/ StartupLoaded
    \/ StartupFabricated
    \/ StartupCrashed
    \/ ImportLoaded
    \/ ImportFailed
    \/ AnalyzeLoan
    \/ PredictLoan

Spec == Init /\ [][Next]_vars

(***************************************************************************)
(* Two requests against one loaded, trained system, their steps            *)
(* interleaved in every order.                                             *)
(***************************************************************************)
InitConc ==
    /\ service = "app"
    /\ svc_pc = "serving"
    /\ gs_origin = "artifact"
    /\ \E art \in ConcArtifacts :
          /\ label_encoders = art.label_encoders
          /\ feature_scaler = art.feature_scaler
          /\ model_cols = art.model_cols
    /\ enc_result = NoEncResult
    /\ response = NoResponse
    /\ scaler_mean = TrainingRows
    /\ requests \in [Threads -> {Request("start", r, NoMatrix, NoMatrix, "") :
                                    r \in AppRecords}]
    /\ SectorIdle /\ RuleIdle
    /\ PayIdle /\ DivIdle /\ SchedIdle /\ EarlyIdle
    /\ GuideIdle /\ SumIdle

ConcUnchanged ==
    UNCHANGED <<service, svc_pc, gs_origin, model_cols, response, enc_result,
                sectorVars, ruleVars, payVars, divVars, schedVars, earlyVars,
                guideVars, sumVars>>

\* processed_data = self.preprocess_data(pd.DataFrame([user_data]))
ConcPreprocess(t) ==
    /\ requests[t].pc = "start"
    /\ LET pre == preprocess_data(Current, requests[t].record) IN
          /\ label_encoders' = pre.encoders
          /\ requests' = [requests EXCEPT
                ![t].pc = IF pre.raised THEN "failed" ELSE "preprocessed",
                ![t].stage = IF pre.raised THEN "encode" ELSE ""]
    /\ UNCHANGED <<feature_scaler, scaler_mean>>
    /\ ConcUnchanged

\* prepare_features up to the fit of self.feature_scaler.fit_transform(X):
\* the scaler takes the columns and the mean of this request's X.
ConcFit(t) ==
    /\ requests[t].pc = "preprocessed"
    /\ \E kept \in ConcKept, draw \in 0..MaxDraw :
          LET p == prepare_features(requests[t].record, "request", kept, draw)
          IN  /\ feature_scaler' = p.scaler
              /\ scaler_mean' = p.X
              /\ requests' = [requests EXCEPT ![t].pc = "fitted",
                                              ![t].X = p.X]
    /\ UNCHANGED label_encoders
    /\ ConcUnchanged

\* The transform of fit_transform: X is scaled with the scaler's mean_ as
\* it is now; a scaler fitted on other columns raises.
ConcTransform(t) ==
    /\ requests[t].pc = "fitted"
    /\ requests' = [requests EXCEPT
          ![t].pc = IF feature_scaler.cols = requests[t].X.cols
                    THEN "scaled" ELSE "failed",
          ![t].stage = IF feature_scaler.cols = requests[t].X.cols
                       THEN "" ELSE "transform",
          ![t].scaled_with = IF feature_scaler.cols = requests[t].X.cols
                             THEN scaler_mean ELSE NoMatrix]
    /\ UNCHANGED <<label_encoders, feature_scaler, scaler_mean>>
    /\ ConcUnchanged

\* risk_model.predict_proba(X_user) and payment_predictor.predict(X_user),
\* then the rules.
ConcPredict(t) ==
    /\ requests[t].pc = "scaled"
    /\ requests' = [requests EXCEPT
          ![t].pc = IF PredictRaises(Current, requests[t].X)
                    THEN "failed" ELSE "done",
          ![t].stage = IF PredictRaises(Current, requests[t].X)
                       THEN "predict" ELSE "done"]
    /\ UNCHANGED <<label_encoders, feature_scaler, scaler_mean>>
    /\ ConcUnchanged

NextConc ==
    \E t \in Threads :
        ConcPreprocess(t) \/ ConcFit(t) \/ ConcTransform(t) \/ ConcPredict(t)

SpecConc == InitConc /\ [][NextConc]_vars

(***************************************************************************)
(* Properties of the inference path and of the services                    *)
(***************************************************************************)
\* The answer comes from a run that reached the models with a matrix.
ReachedModels(r) == r.stage \in {"predict", "done"}

\* C2: handling an inference request on a loaded, trained system never
\* triggers a re-fit: the fitted feature scaler and the per-field category
\* mappings are the same after the request as before it, and the scaler a
\* record is scored with is the one fitted at training time.
C2_RequestNeverRefits ==
    [][(svc_pc = "serving" /\ svc_pc' = "serving" /\ gs_origin # "none") =>
          /\ feature_scaler' = feature_scaler
          /\ label_encoders' = label_encoders
          /\ (ReachedModels(response') =>
                 feature_scaler'.fit_on = "training")]_vars

\* C3: every call of prepare_features selects the same fixed list of 18
\* named features in the same order, so the matrix built for an inference
\* request has the width and the column order of the matrix the models
\* were fitted on.
C3_FixedFeatureList ==
    /\ (feature_scaler.fit_on # "nothing" =>
            (feature_scaler.cols = features /\ Len(feature_scaler.cols) = 18))
    /\ (ReachedModels(response) =>
            (response.X.cols = features /\ response.X.cols = model_cols))

\* C4: inference is reproducible: two runs of
\* generate_comprehensive_guidance on the same trained model and the same
\* record feed the models the same feature matrix and return the same
\* risk score, risk level and monthly payment; no random perturbation is
\* applied on the inference path.
C4_InferenceReproducible ==
    [][(/\ ReachedModels(response) /\ ReachedModels(response')
        /\ response'.record = response.record
        /\ gs_origin' = gs_origin /\ model_cols' = model_cols) =>
          /\ response'.X = response.X
          /\ response'.status = response.status
          /\ response'.risk_score = response.risk_score
          /\ response'.risk_level = response.risk_level
          /\ response'.monthly_payment = response.monthly_payment]_vars

\* The answer refuses the request for want of a model.
ModelUnavailable(r) == r.status \in {500, 503} /\ r.detail = "Model not loaded"

\* C5: when the artifact is not loaded or its load failed, the service
\* refuses every analysis request with a model-unavailable error, and no
\* request gets a prediction computed by a model the service made itself.
C5_FailedLoadRefuses ==
    /\ (svc_pc = "serving" /\ gs_origin # "artifact" /\ response.status # 0)
          => ModelUnavailable(response)
    /\ response.status = 200 => response.model = "artifact"

(***************************************************************************)
(* Properties of the service boundary                                      *)
(***************************************************************************)
\* The request names a category its fitted encoder has no class for.
UnknownCategory(r) ==
    \E name \in FieldNames :
        /\ label_encoders[name].fitted
        /\ r.record[name] # ""
        /\ r.record[name] \notin Elements(label_encoders[name].classes)

\* The request failed on its own input.
InputError(r) == r.detail = "exception" /\ r.stage = "encode" /\ UnknownCategory(r)

\* The request failed on something no input of it decides: a column the
\* request schema does not have, a matrix the models were not fitted on.
InternalFailure(r) == r.detail = "exception" /\ ~InputError(r)

\* C23: at the service boundary an error caused by the request's input (an
\* unknown category) is answered with a 4xx status and an unavailable
\* model with a 5xx status; an internal computation failure is never
\* answered with a 4xx status, nor a client input error with a 5xx one.
C23_StatusTellsCause ==
    /\ InputError(response) => response.status \in 400..499
    /\ ModelUnavailable(response) => response.status \in 500..599
    /\ InternalFailure(response) => response.status \notin 400..499

(***************************************************************************)
(* Properties of concurrent requests                                       *)
(***************************************************************************)
\* What a request that runs alone arrives at: its X is scaled with the
\* mean_ of its own fit, and it fails in preprocess_data or in the models'
\* predict only.
AsAlone(r) ==
    /\ r.pc \in {"scaled", "done"} => r.scaled_with = r.X
    /\ r.pc = "failed" => r.stage \in {"encode", "predict"}

\* A step leaves the scaler, the encoder mappings and the models as they
\* are.
SharedUntouched ==
    /\ feature_scaler' = feature_scaler
    /\ scaler_mean' = scaler_mean
    /\ label_encoders' = label_encoders
    /\ model_cols' = model_cols

\* C24: guidance requests that run concurrently against one loaded system
\* need no coordination: under every interleaving each request's result
\* is the one it has when it runs alone, and no request changes the shared
\* scaler, encoder mappings or models.
C24_NoCoordinationNeeded ==
    /\ [](\A t \in Threads : AsAlone(requests[t]))
    /\ [][SharedUntouched]_vars

(***************************************************************************)
(* Properties of encode_categorical                                        *)
(***************************************************************************)
\* One step keeps every fitted mapping, fits the mapping of the field it
\* was called for, and returns the codes the stored mapping gives.
C1_Step ==
    /\ \A n \in FieldNames :
          label_encoders[n].fitted => label_encoders'[n] = label_encoders[n]
    /\ enc_result'.called =>
          label_encoders'[enc_result'.name].fitted
    /\ (enc_result'.called /\ ~enc_result'.raised) =>
          /\ Len(enc_result'.codes) = Len(enc_result'.series)
          /\ \A i \in 1..Len(enc_result'.series) :
                enc_result'.codes[i] =
                    CodeOf(label_encoders'[enc_result'.name].classes,
                           enc_result'.series[i])

\* C1: after any sequence of encode_categorical calls a category that has
\* a code keeps it: the first call for a field creates and fits the
\* mapping, every later call reuses the stored mapping unchanged, and
\* encoding a category again yields the code of the stored mapping.
C1_EncodedCategoriesKeepCodes == [][C1_Step]_vars

\* C1's case: a later call for a fitted field, on a series a fresh fit of
\* which would give "student" another code.
C1_Witness ==
    /\ label_encoders["borrower_type"] = Fitted(<<"business", "student">>)
    /\ enc_result.called
    /\ enc_result.name = "borrower_type"
    /\ enc_result.series = <<"student">>
    /\ ~enc_result.raised
    /\ enc_result.codes = <<1>>

\* The call of this step is for a fitted field and has a value that is
\* not among the classes the field was fitted on.
C11_UnseenCall ==
    /\ enc_result' # enc_result
    /\ enc_result'.called
    /\ label_encoders[enc_result'.name].fitted
    /\ ~(Elements(enc_result'.series)
            \subseteq Elements(label_encoders[enc_result'.name].classes))

\* C11: once a field's mapping is fitted, encode_categorical on that field
\* with a value not seen at fit time fails: it raises, returns no code for
\* any value, and leaves the stored mappings as they were.
C11_UnseenCategoryFails ==
    [][C11_UnseenCall =>
          /\ enc_result'.raised
          /\ enc_result'.codes = <<>>
          /\ label_encoders' = label_encoders]_vars

\* C11's case: borrower_type fitted on "business" alone, then called with
\* a series that has "farmer" in it.
C11_Witness ==
    /\ label_encoders["borrower_type"] = Fitted(<<"business">>)
    /\ enc_result.called
    /\ enc_result.name = "borrower_type"
    /\ enc_result.series = <<"business", "farmer">>
    /\ enc_result.raised
    /\ enc_result.codes = <<>>

(***************************************************************************)
(* Properties of the payment-history analyzer                              *)
(***************************************************************************)
\* The history is a list, given as one or as a string that evaluates.
IsListHistory(h) == h.kind = "list" \/ (h.kind = "str" /\ h.evaluates)

\* The records of the history: its dict elements, in order.
RecordsOf(h) == SelectSeq(h.items, LAMBDA p : p.kind = "dict")

\* The record has both dates, each a YYYY-MM-DD text of a calendar day.
DatesParse(p) ==
    /\ p.due_date.present /\ ~strptime(p.due_date.v).raised
    /\ p.payment_date.present /\ ~strptime(p.payment_date.v).raised

\* The delay of a record as spec section 4.2 defines it.
DelayOf(p) ==
    LET days == toordinal(strptime(p.payment_date.v).date)
                    - toordinal(strptime(p.due_date.v).date)
    IN  IF days > 0 THEN days ELSE 0

DelaysOf(h) == [i \in 1..Len(RecordsOf(h)) |-> DelayOf(RecordsOf(h)[i])]

\* A history the analyzer computes features from: a list with a record,
\* every record of which has dates that parse.
Analyzable(h) ==
    /\ IsListHistory(h)
    /\ RecordsOf(h) # <<>>
    /\ \A i \in 1..Len(RecordsOf(h)) : DatesParse(RecordsOf(h)[i])

\* payment_regularity = 1, late_payments = 0, avg_payment_delay = 0,
\* payment_volatility = 0, payment_trend = 0, returned and not raised.
IsNeutral(f) ==
    /\ ~f.raised
    /\ f.payment_regularity = [n |-> 1, d |-> 1]
    /\ f.late_payments = 0
    /\ f.avg_payment_delay = [n |-> 0, d |-> 1]
    /\ f.payment_volatility = [sqrt_of |-> [n |-> 0, d |-> 1]]
    /\ f.payment_trend = [n |-> 0, d |-> 1]

\* C12: for an empty payment history the analyzer returns exactly the
\* neutral feature set (regularity 1, late payments 0, average delay 0,
\* volatility 0, trend 0), and so it does for a history that has no
\* record in it (None, or a list none of whose elements is a record).
C12_EmptyHistoryIsNeutral ==
    (/\ pay_pc = "done"
     /\ \/ payment_history.kind = "none"
        \/ IsListHistory(payment_history) /\ RecordsOf(payment_history) = <<>>)
    => IsNeutral(payment_features)

\* C12's case: the empty list, analyzed.
C12_Witness ==
    /\ pay_pc = "done"
    /\ payment_history = History("list", FALSE, <<>>)
    /\ IsNeutral(payment_features)

\* A history that cannot be parsed: a string eval raises on, or a list
\* with a record whose due_date or payment_date is missing or is not a
\* YYYY-MM-DD date.
Unparseable(h) ==
    \/ h.kind = "str" /\ ~h.evaluates
    \/ /\ IsListHistory(h)
       /\ \E i \in 1..Len(RecordsOf(h)) : ~DatesParse(RecordsOf(h)[i])

\* C13: the analyzer returns the neutral feature set for every
\* unparseable input and never raises.
C13_UnparseableIsNeutral ==
    (pay_pc = "done" /\ Unparseable(payment_history))
    => IsNeutral(payment_features)

\* C14: the delay of every record is max(0, payment_date - due_date) in
\* whole days; late_payments is the number of records with a delay above
\* 0 and avg_payment_delay the mean of all delays; a single on-time
\* payment gives late_payments = 0 and avg_payment_delay = 0.
C14_DelaysCountedFromZero ==
    (pay_pc = "done" /\ Analyzable(payment_history)) =>
       LET delays == DelaysOf(payment_history) IN
       /\ ~payment_features.raised
       /\ payment_features.late_payments =
             Cardinality({i \in 1..Len(delays) : delays[i] > 0})
       /\ payment_features.avg_payment_delay.n * Len(delays) =
             SumSeq(delays) * payment_features.avg_payment_delay.d
       /\ payment_features.avg_payment_delay.d > 0
       /\ payment_features.avg_payment_delay.n >= 0
       /\ (Len(delays) = 1 /\ DelayOf(RecordsOf(payment_history)[1]) = 0) =>
             (/\ payment_features.late_payments = 0
              /\ payment_features.avg_payment_delay.n = 0)

\* C14's case: one early, one on-time and one late payment: delays 0, 0
\* and 5, one late payment, an average of 5/3.
C14_Witness ==
    /\ pay_pc = "done"
    /\ payment_history.kind = "list"
    /\ Analyzable(payment_history)
    /\ Len(payment_history.items) = 3
    /\ payment_history.items[1].payment_date.v = DateText(2023, 1, 15, IsoFormat)
    /\ payment_history.items[2].payment_date.v = DateText(2023, 1, 31, IsoFormat)
    /\ payment_history.items[3].payment_date.v = DateText(2023, 2, 5, IsoFormat)
    /\ payment_features.late_payments = 1
    /\ payment_features.avg_payment_delay = [n |-> 5, d |-> 3]

\* C15: payment_regularity = 1 - sum(delays) / (count(delays) * 30) for a
\* non-empty history: never above 1, equal to 1 exactly when no payment
\* is late, and negative, not floored at 0, when the mean delay exceeds 30
\* days.
C15_RegularityUnboundedBelow ==
    (pay_pc = "done" /\ Analyzable(payment_history)) =>
       LET delays == DelaysOf(payment_history)
           r == payment_features.payment_regularity
       IN  /\ r.d > 0
           /\ (r.d - r.n) * (Len(delays) * 30) = SumSeq(delays) * r.d
           /\ r.n <= r.d
           /\ (r.n = r.d) <=> (payment_features.late_payments = 0)
           /\ (SumSeq(delays) > 30 * Len(delays)) => r.n < 0

\* C15's case: one payment 43 days late, a regularity of -13/30.
C15_Witness ==
    /\ pay_pc = "done"
    /\ Analyzable(payment_history)
    /\ DelaysOf(payment_history) = <<43>>
    /\ payment_features.payment_regularity = [n |-> -13, d |-> 30]

\* C16: payment_trend is 0 for fewer than 2 records and otherwise -1
\* times the mean of the first differences of consecutive delays, that is
\* (first delay - last delay) / (n - 1); it is positive exactly when the
\* last delay is smaller than the first.
C16_TrendIsFirstMinusLast ==
    (pay_pc = "done" /\ ~payment_features.raised
     /\ IsListHistory(payment_history)
     /\ \A i \in 1..Len(RecordsOf(payment_history)) :
           DatesParse(RecordsOf(payment_history)[i])) =>
       LET delays == DelaysOf(payment_history)
           n == Len(delays)
           t == payment_features.payment_trend
       IN  /\ t.d > 0
           /\ n < 2 => t.n = 0
           /\ n >= 2 =>
                 /\ t.n * (n - 1) = (delays[1] - delays[n]) * t.d
                 /\ (t.n > 0) <=> (delays[n] < delays[1])

\* C16's case: delays 43, 0 and 5, a trend of (43 - 5) / 2 = 19.
C16_Witness ==
    /\ pay_pc = "done"
    /\ Analyzable(payment_history)
    /\ DelaysOf(payment_history) = <<43, 0, 5>>
    /\ payment_features.payment_trend = [n |-> 19, d |-> 1]

(***************************************************************************)
(* Properties of safe_divide                                               *)
(***************************************************************************)
\* The value is a number, or a Series of numbers: no nan, no infinity.
IsFinite(v) ==
    IF v.t = "series" THEN \A i \in 1..Len(v.xs) : v.xs[i].kind = "num"
    ELSE v.t = "scalar" /\ v.x.kind = "num"

\* The value is 0, or a Series of zeros.
IsAllZero(v) ==
    IF v.t = "series" THEN \A i \in 1..Len(v.xs) : IsZero(v.xs[i])
    ELSE v.t = "scalar" /\ IsZero(v.x)

\* A denominator that is zero or missing (nan).
ZeroOrMissing(x) == IsZero(x) \/ x.kind = "nan"

\* C17: safe_divide(a, b) yields 0 wherever the denominator is zero or
\* missing, for a scalar denominator and element by element for a vector
\* denominator; for every numerator and denominator it does not raise and
\* returns neither nan nor an infinity.
C17_SafeDivideIsTotal ==
    div_pc = "done" =>
       /\ ~div_result.raised
       /\ IsFinite(div_result.v)
       /\ (div_args.b.t = "none" => IsAllZero(div_result.v))
       /\ (div_args.b.t = "scalar" /\ ZeroOrMissing(div_args.b.x))
             => IsAllZero(div_result.v)
       /\ div_args.b.t = "series" =>
             /\ div_result.v.t = "series"
             /\ \A i \in 1..Len(div_args.b.xs) :
                   ZeroOrMissing(div_args.b.xs[i]) => IsZero(div_result.v.xs[i])

(***************************************************************************)
(* Properties of the payment schedule and of the early-payment benefits    *)
(***************************************************************************)
\* The running balance after k periods as spec section 4.6 defines it:
\* the loan amount, less each period's principal, which is the monthly
\* payment less the interest on the balance before it.
RECURSIVE BalanceAfter(_, _)
BalanceAfter(details, k) ==
    IF k = 0 THEN details.loan_amount
    ELSE LET before == BalanceAfter(details, k - 1)
             interest == RatDiv(RatMul(before, details.interest_rate),
                                RatInt(1200))
         IN  RatSub(before, RatSub(details.monthly_payment, interest))

InterestOf(details, k) ==
    RatDiv(RatMul(BalanceAfter(details, k - 1), details.interest_rate),
           RatInt(1200))

PrincipalOf(details, k) == RatSub(details.monthly_payment, InterestOf(details, k))

\* The call of the example: 1200 at 0 percent over 12 months, paid 100 a
\* month.
ExampleLoan == LoanDetails(RatInt(1200), RatInt(0), 12, RatInt(100))

\* The schedule has one entry per month of the term, numbered from 1, and
\* for the example every interest is 0, every principal 100 and the last
\* remaining balance 0.
ScheduleShape ==
    /\ Len(schedule) = loan_details.loan_term_months
    /\ \A k \in 1..Len(schedule) : schedule[k].payment_number = k
    /\ loan_details = ExampleLoan =>
          /\ \A k \in 1..Len(schedule) :
                /\ schedule[k].interest = RatInt(0)
                /\ schedule[k].principal = RatInt(100)
          /\ schedule[Len(schedule)].remaining_balance = RatInt(0)

\* C18, as amended: create_detailed_schedule returns exactly
\* loan_term_months entries numbered 1..n in order; starting from balance
\* = loan_amount each period has interest = balance * interest_rate /
\* 1200, principal = monthly_payment - interest and balance := balance -
\* principal, carried unrounded, and the entry reports interest, principal
\* and remaining_balance = max(0, balance) rounded to 2 decimals.  For
\* loan_amount 1200, rate 0, term 12, payment 100 every entry has interest
\* 0 and principal 100 and the last remaining_balance is 0.
C18_ScheduleReportsRounded ==
    schedule_pc = "done" =>
       /\ ScheduleShape
       /\ \A k \in 1..Len(schedule) :
             /\ schedule[k].interest = round2(InterestOf(loan_details, k))
             /\ schedule[k].principal = round2(PrincipalOf(loan_details, k))
             /\ schedule[k].remaining_balance =
                   round2(RatMax0(BalanceAfter(loan_details, k)))

\* C18's case: two periods at 60 percent a year on 1200, paid 1000/3 a
\* month: interest 60.00 and 46.33, principal 273.33 and 287.00.
C18_Witness ==
    /\ schedule_pc = "done"
    /\ loan_details = LoanDetails(RatInt(1200), RatInt(60), 2, Rat(1000, 3))
    /\ schedule[1].interest = RatInt(60)
    /\ schedule[1].principal = Rat(27333, 100)
    /\ schedule[2].interest = Rat(4633, 100)
    /\ schedule[2].principal = RatInt(287)
    /\ schedule[2].remaining_balance = Rat(63967, 100)

\* C18 as stated: the entries report the interest, the principal and
\* max(0, balance) of the recurrence themselves.
C18_ScheduleReportsExact ==
    schedule_pc = "done" =>
       /\ ScheduleShape
       /\ \A k \in 1..Len(schedule) :
             /\ schedule[k].interest = InterestOf(loan_details, k)
             /\ schedule[k].principal = PrincipalOf(loan_details, k)
             /\ schedule[k].remaining_balance =
                   RatMax0(BalanceAfter(loan_details, k))

\* C19: the due date of entry k is the call time plus 30 * (k - 1) days,
\* so the first due date is the call date and consecutive due dates are 30
\* days apart; each entry has exactly 3 reminder dates: 7 days before, 3
\* days before and the due date itself, in that order.
C19_DueDatesFromCallTime ==
    [][(schedule_pc = "new" /\ schedule_pc' = "done") =>
          \A k \in 1..Len(schedule') :
             LET due == now + 30 * (k - 1) IN
             /\ schedule'[k].due_date = strftime(fromordinal(due))
             /\ k > 1 =>
                   toordinal(strptime(schedule'[k].due_date).date)
                     - toordinal(strptime(schedule'[k - 1].due_date).date) = 30
             /\ schedule'[k].reminder_dates =
                   <<strftime(fromordinal(due - 7)),
                     strftime(fromordinal(due - 3)),
                     strftime(fromordinal(due))>>]_vars

\* total(t) = loan_amount * (1 + interest_rate/100 * t/12)
TotalAt(data, t) ==
    RatMul(data.loan_amount,
           RatAdd(RatInt(1),
                  RatMul(RatDiv(data.interest_rate, RatInt(100)), Rat(t, 12))))

\* loan_amount * interest_rate/100 * 6/12
HalfYearInterest(data) ==
    RatMul(RatMul(data.loan_amount, RatDiv(data.interest_rate, RatInt(100))),
           Rat(6, 12))

\* C20, as amended: calculate_early_payment_benefits compares total(term)
\* with total(term - 6) without re-amortizing: it returns time_saved = 6
\* and potential_savings = reduced_interest = total(term) - total(term - 6)
\* rounded to 2 decimals, which is loan_amount * interest_rate/100 * 6/12
\* rounded to 2 decimals for every term, terms under 6 months included.
C20_EarlyBenefitsRounded ==
    early_pc = "done" =>
       LET diff6 == RatSub(TotalAt(user_data, user_data.loan_term_months),
                           TotalAt(user_data, user_data.loan_term_months - 6))
       IN  /\ early_payment_benefits.time_saved = 6
           /\ early_payment_benefits.potential_savings = round2(diff6)
           /\ early_payment_benefits.reduced_interest = round2(diff6)
           /\ diff6 = HalfYearInterest(user_data)

\* C20's case: 1000.01 at 1 percent over 3 months: half a year of
\* interest is 5.00005, returned as 5.
C20_Witness ==
    /\ early_pc = "done"
    /\ user_data = LoanDetails(Rat(100001, 100), RatInt(1), 3, RatInt(0))
    /\ early_payment_benefits.potential_savings = RatInt(5)
    /\ early_payment_benefits.time_saved = 6

\* C20 as stated: the values returned are the difference itself.
C20_EarlyBenefitsExact ==
    early_pc = "done" =>
       /\ early_payment_benefits.time_saved = 6
       /\ early_payment_benefits.potential_savings = HalfYearInterest(user_data)
       /\ early_payment_benefits.reduced_interest = HalfYearInterest(user_data)
       /\ RatSub(TotalAt(user_data, user_data.loan_term_months),
                 TotalAt(user_data, user_data.loan_term_months - 6))
             = HalfYearInterest(user_data)

(***************************************************************************)
(* Properties of the rules of the guidance package                         *)
(***************************************************************************)
\* C21: identify_risk_factors returns, in this order and with nothing else,
\* 'Low Credit Score' (High) iff credit_score < 650, 'High Debt-to-Income
\* Ratio' (High) iff loan_amount / (monthly_income * loan_term_months) > 0.4
\* on the raw request fields, and 'Limited Credit History' (Medium) iff
\* age < 25; the values 650, 0.4 and 25 themselves raise no factor.  The
\* ratio is compared without a division: 5 * loan_amount against
\* 2 * monthly_income * loan_term_months.
C21_RiskFactorsInOrder ==
    guide_pc = "done" =>
        LET data == guide_data.user_data
            low == data.credit_score < 650
            high == 5 * data.loan_amount
                        > 2 * data.monthly_income * data.loan_term_months
            young == data.age < 25
        IN  guidance.risk_assessment.key_factors =
                (IF low THEN <<[factor |-> "Low Credit Score",
                                impact |-> "High"]>> ELSE <<>>)
                \o (IF high THEN <<[factor |-> "High Debt-to-Income Ratio",
                                    impact |-> "High"]>> ELSE <<>>)
                \o (IF young THEN <<[factor |-> "Limited Credit History",
                                     impact |-> "Medium"]>> ELSE <<>>)

\* A profile exactly on the three thresholds, for which nothing is raised.
C21_Witness ==
    /\ guide_pc = "done"
    /\ guide_data.user_data.credit_score = 650
    /\ guide_data.user_data.loan_amount = 4000
    /\ guide_data.user_data.monthly_income = 1000
    /\ guide_data.user_data.loan_term_months = 10
    /\ guide_data.user_data.age = 25
    /\ guidance.risk_assessment.key_factors = <<>>

\* C22: the mitigation strategies and the risk_mitigation recommendations
\* of a package depend on the risk tier and the borrower_type only - any
\* other score of the same tier, with the same user_data, selects the same
\* strings - and neither selection is empty.
C22_SelectedByTier ==
    guide_pc = "done" =>
        /\ \A score \in 0..MaxScore :
              categorize_risk(score) = guidance.risk_assessment.risk_level
              => /\ generate_risk_assessment(score,
                           guide_data.user_data).mitigation_strategies
                    = guidance.risk_assessment.mitigation_strategies
                 /\ generate_smart_recommendations(guide_data.user_data,
                                                   score).risk_mitigation
                    = guidance.recommendations.risk_mitigation
        /\ guidance.risk_assessment.mitigation_strategies # <<>>
        /\ guidance.recommendations.risk_mitigation # <<>>

\* C25: in one package the monitoring plan agrees with the risk tier of
\* the same score - 'Low Risk' with 'Quarterly' and 2 checks, 'Moderate
\* Risk' with 'Monthly' and 3 checks, 'High Risk' with 'Weekly' and 4
\* checks, a score of 0.3 being Moderate and one of 0.7 High - and the
\* alert thresholds are 1 missed payment, a credit score drop of 50 and an
\* income change of 0.2 for every score.
C25_MonitoringAgreesWithTier ==
    guide_pc = "done" =>
        LET level == guidance.risk_assessment.risk_level
            plan == guidance.monitoring_plan
            Goes(frequency, checks) ==
                /\ plan.monitoring_frequency = frequency
                /\ Len(plan.required_checks) = checks
        IN  /\ level \in {"Low Risk", "Moderate Risk", "High Risk"}
            /\ level = "Low Risk" => Goes("Quarterly", 2)
            /\ level = "Moderate Risk" => Goes("Monthly", 3)
            /\ level = "High Risk" => Goes("Weekly", 4)
            /\ guide_data.risk_score = 30
               => level = "Moderate Risk" /\ Goes("Monthly", 3)
            /\ guide_data.risk_score = 70
               => level = "High Risk" /\ Goes("Weekly", 4)
            /\ plan.alert_thresholds
               = [missed_payments |-> 1, credit_score_drop |-> 50,
                  income_change |-> 20]

\* The package of a score of exactly 0.7.
C25_Witness ==
    /\ guide_pc = "done"
    /\ guide_data.risk_score = 70
    /\ guidance.risk_assessment.risk_level = "High Risk"
    /\ guidance.monitoring_plan.monitoring_frequency = "Weekly"

(***************************************************************************)
(* Properties of the unrounded amounts of create_detailed_schedule         *)
(***************************************************************************)
\* The balance that iteration k starts from.
BalanceBefore(k) ==
    IF k = 1 THEN loan_details.loan_amount
    ELSE schedule_locals[k - 1].remaining_balance

\* An amount less each amount of a sequence: x - (xs[1] + ... + xs[n]),
\* taken off one after the other.
RECURSIVE LessAll(_, _)
LessAll(x, xs) ==
    IF xs = <<>> THEN x ELSE LessAll(RatSub(x, xs[1]), Tail(xs))

\* The principal payments of the first k iterations.
PrincipalsTo(k) == [i \in 1..k |-> schedule_locals[i].principal_payment]

\* C26: in create_detailed_schedule, before rounding, every period has
\* payment_amount = principal + interest, and after k periods loan_amount
\* minus the first k principals is the running balance; only the reported
\* remaining_balance is floored at 0, so the next period's interest is
\* taken on the unfloored balance (and is negative once the loan is
\* overpaid), and the reported remaining_balance is never negative.
C26_UnroundedAmountsAddUp ==
    schedule_pc = "done" =>
       /\ Len(schedule_locals) = Len(schedule)
       /\ \A k \in 1..Len(schedule_locals) :
             LET it == schedule_locals[k] IN
             /\ RatAdd(it.principal_payment, it.interest_payment)
                = loan_details.monthly_payment
             /\ LessAll(loan_details.loan_amount, PrincipalsTo(k))
                = it.remaining_balance
             /\ it.interest_payment
                = RatDiv(RatMul(BalanceBefore(k), loan_details.interest_rate),
                         RatInt(1200))
             /\ (BalanceBefore(k).n < 0 /\ loan_details.interest_rate.n > 0)
                => it.interest_payment.n < 0
             /\ schedule[k].remaining_balance.n >= 0
             /\ schedule[k].remaining_balance
                = round2(IF it.remaining_balance.n < 0 THEN RatInt(0)
                         ELSE it.remaining_balance)
             /\ schedule[k].principal = round2(it.principal_payment)
             /\ schedule[k].interest = round2(it.interest_payment)

\* C26's case: 1200 at 60 percent a year paid 1300 a month - after the
\* first period the balance is -40 and is reported as 0, and the second
\* period's interest is -2.
C26_Witness ==
    /\ schedule_pc = "done"
    /\ Len(schedule_locals) = 2
    /\ schedule_locals[1].remaining_balance = RatInt(-40)
    /\ schedule[1].remaining_balance = RatInt(0)
    /\ schedule_locals[2].interest_payment = RatInt(-2)
    /\ schedule[2].interest = RatInt(-2)

(***************************************************************************)
(* Properties of _get_summary_schedule                                     *)
(***************************************************************************)
\* The payments of a schedule: its entries other than the summary entry.
PaymentsOf(sched) ==
    SelectSeq(sched, LAMBDA e : e.payment_number.t = "int")

\* The place of an entry in the schedule handed in.
PlaceOf(e) == CHOOSE i \in 1..Len(full_schedule) : full_schedule[i] = e

\* The summary is taken from the schedule, in its order, nothing twice.
C27_OrderedSelection ==
    /\ Elements(schedule_summary) \subseteq Elements(full_schedule)
    /\ \A j \in 1..(Len(schedule_summary) - 1) :
          PlaceOf(schedule_summary[j]) < PlaceOf(schedule_summary[j + 1])

\* The summary has every summary entry of the schedule.
C27_KeepsSummaryEntries ==
    \A e \in Elements(full_schedule) :
        e.payment_number = PyStr("summary") => e \in Elements(schedule_summary)

\* The summary has the first 3 payments of the schedule.
C27_KeepsFirstPayments ==
    \A k \in 1..3 :
        k <= Len(PaymentsOf(full_schedule))
        => PaymentsOf(full_schedule)[k] \in Elements(schedule_summary)

\* The summary has the last payment of the schedule.
C27_KeepsLastPayment ==
    PaymentsOf(full_schedule) # <<>>
    => PaymentsOf(full_schedule)[Len(PaymentsOf(full_schedule))]
       \in Elements(schedule_summary)

\* C27: _get_summary_schedule returns [] for an empty schedule and
\* otherwise an order-preserving selection without duplicates that has
\* the first 3 payments, the last payment of the schedule and every
\* summary entry, whether or not the schedule ends with a summary entry.
C27_SummaryOfSchedule ==
    summary_pc = "done" =>
        /\ full_schedule = <<>> => schedule_summary = <<>>
        /\ C27_OrderedSelection
        /\ C27_KeepsSummaryEntries
        /\ C27_KeepsFirstPayments
        /\ C27_KeepsLastPayment

(***************************************************************************)
(* Properties of categorize_risk                                           *)
(***************************************************************************)
\* C6: categorize_risk returns exactly one of the three literals: 'Low
\* Risk' below 0.3, 'Moderate Risk' from 0.3 to below 0.7, 'High Risk'
\* from 0.7 on; 0.3 itself is 'Moderate Risk' and 0.7 itself 'High Risk'.
C6_CategorizeRiskThresholds ==
    rule_pc = "done" =>
        /\ risk_level \in {"Low Risk", "Moderate Risk", "High Risk"}
        /\ (risk_score < 30 => risk_level = "Low Risk")
        /\ (risk_score >= 30 /\ risk_score < 70 => risk_level = "Moderate Risk")
        /\ (risk_score >= 70 => risk_level = "High Risk")

\* C6's case: the score 0.3 was categorized.
C6_Witness ==
    /\ rule_pc = "done"
    /\ risk_score = 30
    /\ risk_level = "Moderate Risk"

(***************************************************************************)
(* Properties of calculate_sector_risk and validate_sector_data            *)
(***************************************************************************)
\* The dict a sector_data argument is evaluated as, if any.
IsDictArg(arg) == arg.kind = "dict" \/ (arg.kind = "str" /\ arg.evals)

\* C7: for every input, malformed input included, the value returned by
\* calculate_sector_risk lies in [0, 1].
C7_SectorRiskInUnitInterval ==
    sector_pc = "scored" => (sector_risk >= 0 /\ sector_risk <= 100)

\* C7's case: a farming record whose base and modifiers add up to more
\* than 1 was scored, and the result is 1.
C7_Witness ==
    /\ sector_pc = "scored"
    /\ IsDictArg(sector_data)
    /\ Len(sector_data.items) = 1
    /\ sector_data.items[1] =
          <<"farming", DictInfo([irrigation_type |-> PyStr("rainfed"),
                                 land_ownership |-> PyStr("leased"),
                                 crop_diversity |-> PyInt(2)])>>
    /\ sector_risk = 100

\* What C8 says a categorical modifier adds.
C8_Categorical(attrs, key, table) ==
    IF key \notin DOMAIN attrs THEN 0
    ELSE IF str(attrs[key]) \in DOMAIN table THEN table[str(attrs[key])]
    ELSE 0

\* What C8 says a threshold modifier adds: above the limit -0.1, else
\* (the limit included) +0.1.
C8_Numeric(attrs, key, limit) ==
    IF key \notin DOMAIN attrs THEN 0
    ELSE IF attrs[key].n > limit THEN -10 ELSE 10

\* base + sum of modifiers as C8 states it, per sector tag.
C8_Sum(tag, attrs) ==
    CASE tag = "farming" ->
            70 + C8_Categorical(attrs, "irrigation_type",
                                [rainfed |-> 20, irrigated |-> -10])
               + C8_Categorical(attrs, "land_ownership",
                                [leased |-> 10, owned |-> -10])
               + C8_Numeric(attrs, "crop_diversity", 2)
      [] tag = "business" ->
            50 + C8_Numeric(attrs, "years", 5)
               + C8_Categorical(attrs, "type",
                                [retail |-> 10, manufacturing |-> 20,
                                 service |-> 0])
      [] tag = "student" ->
            30 + C8_Categorical(attrs, "course_type",
                                [engineering |-> -10, medical |-> -10,
                                 business |-> 0, arts |-> 10])
      [] OTHER -> 50

C8_Clamped(x) == IF x < 0 THEN 0 ELSE IF x > 100 THEN 100 ELSE x

\* A well-formed sector attribute dict: one sector key, whose entry is an
\* attribute mapping with numbers where a threshold rule reads.
C8_WellFormed(arg) ==
    /\ IsDictArg(arg)
    /\ Len(arg.items) = 1
    /\ arg.items[1][2].kind = "dict"
    /\ \A k \in {"years", "crop_diversity"} \cap DOMAIN arg.items[1][2].attrs :
          arg.items[1][2].attrs[k].t = "int"

C8_Example ==
    <<"business", DictInfo([years |-> PyInt(6), type |-> PyStr("retail")])>>

\* C8: for a well-formed sector attribute dict calculate_sector_risk
\* returns clamp[0,1](base + sum of modifiers), with base 0.7 / 0.5 / 0.3
\* for farming / business / student and 0.5 without modifiers for an
\* unknown tag; a categorical modifier adds its table entry for str(value)
\* or 0, years > 5 and crop_diversity > 2 subtract 0.1 and otherwise add
\* 0.1, an absent attribute adds nothing; {business: {years: 6, type:
\* retail}} gives 0.5.
C8_SectorRiskFormula ==
    (sector_pc = "scored" /\ C8_WellFormed(sector_data)) =>
        /\ sector_risk = C8_Clamped(C8_Sum(sector_data.items[1][1],
                                           sector_data.items[1][2].attrs))
        /\ (sector_data.items[1] = C8_Example => sector_risk = 50)

\* C8's case: the business record with the years at the threshold and a
\* type of the table was scored.
C8_Witness ==
    /\ sector_pc = "scored"
    /\ C8_WellFormed(sector_data)
    /\ sector_data.items[1] =
          <<"business", DictInfo([years |-> PyInt(5), type |-> PyStr("retail")])>>
    /\ sector_risk = 70

\* The malformed inputs C9 lists: not a dict or an unevaluable string, an
\* empty dict, a sector entry that is no attribute mapping, a threshold
\* attribute that is no number.
C9_Malformed(arg) ==
    \/ ~IsDictArg(arg)
    \/ Len(arg.items) = 0
    \/ arg.items[1][2].kind # "dict"
    \/ /\ arg.items[1][2].kind = "dict"
       /\ arg.items[1][1] \in DOMAIN sector_base_risk
       /\ \E i \in 1..Len(sector_base_risk[arg.items[1][1]].modifiers) :
             LET m == sector_base_risk[arg.items[1][1]].modifiers[i] IN
             /\ m.callable
             /\ m.key \in DOMAIN arg.items[1][2].attrs
             /\ arg.items[1][2].attrs[m.key].t # "int"

\* C9: calculate_sector_risk never raises, and for absent or malformed
\* sector data it returns the neutral risk 0.5.
C9_MalformedGivesNeutral ==
    (sector_pc = "scored" /\ C9_Malformed(sector_data)) =>
        sector_risk = NeutralRisk

\* C10: a sector_data object with more than one key is treated as
\* malformed: it is rejected at validation or evaluates to the neutral
\* risk 0.5, and is not scored from the key that comes first.
C10_ManyKeysAreMalformed ==
    (sector_pc = "scored" /\ IsDictArg(sector_data)
        /\ Len(sector_data.items) > 1)
      => sector_risk = NeutralRisk

====
